---- MODULE Spec2Model ----
(***************************************************************************)
(* A model of the Typst static site generator's build core (src/build.js): *)
(* layout detection, layout resolution, import rewriting, the dependency   *)
(* graph, the affected-pages computation and the incremental build.        *)
(*                                                                         *)
(* Paths are sequences of path segments (the code's path arrays, and its   *)
(* "/"-joined strings split at "/").  A Typst source is a sequence of      *)
(* lines, a line a sequence of tokens; a token is a piece of source text   *)
(* the code's regular expressions tell apart.                              *)
(***************************************************************************)
EXTENDS Integers, Sequences, FiniteSets, TLC

VARIABLES
  \* isLayoutFile: its argument and its return value
  typstSource, isLayoutResult, scanPc,
  \* findLayout: its arguments and its return value
  pagesTree, pagePathArray, layoutInheritance, maxMergeDepth, layoutResult, layoutPc,
  \* rewriteImports: one import directive of the source, the two locations, the output
  importPath, fromPathArray, toPathArray, newPath, rewritePc,
  \* findAffectedPages: its arguments, its locals and its return value
  depGraph, changedFile, toCheck, checked, affectedFiles, affectedPages, graphPc,
  \* the source directory on disk, the outputs of the last builds, buildIncremental
  srcFiles, lastBuilt, buildPc,
  \* composeDocument: the page body, the merged set statements, the document
  pageBody, mergedSetStatements, document, composePc,
  \* build and buildIncremental: the configuration, the selected pages, the
  \* loop over them, each page's buildPage call (its position, its compiler
  \* process, its sandbox directory, the compilations it asked for and how
  \* they settled), and what the build returns
  buildKind, sidebarEnabled, tocEnabled, fsFaults, pageList, nextIndex,
  pagePhase, childProc, tempDirs, compileCalls, compileResults, attempts,
  errors, pageCount, buildResult,
  \* pathToRoute and routeToBuildPath: the path array, the route, the paths
  routeFilePath, route, buildPaths, routePc,
  \* the output files of two builds of one pages tree: the tree, the
  \* configured index page, each page build's position, the output
  \* directory, the output of the first build, the number of the build
  outTree, indexPage, outPhase, outputFiles, firstOutput, buildRun,
  \* build up to its page builds: what is installed and on disk, the clean
  \* option, the entries of the root, the output directory now and at the
  \* call, the page builds started, the position
  typstInstalled, pagesDirExists, cleanOutput, rootEntries, outputDir, outputAtStart,
  pagesStarted, buildStage,
  \* buildIncremental up to its page builds: the changed file, whether it
  \* is on disk, the output files, whether the graph was built, the pages
  \* rebuilt, the position
  changedPath, changedExists, incrOutput, graphBuilt, pagesRebuilt, dispatchPc,
  \* dev: the timer of the debounce, the rebuilds in progress, the files
  \* the watcher reported, the files buildIncremental was called for, the
  \* number of events
  debounceTimer, rebuilds, reported, rebuildCalls, eventCount,
  \* findCss: its return value
  cssResult, cssPc

scanVars == <<typstSource, isLayoutResult, scanPc>>
layoutVars == <<pagesTree, pagePathArray, layoutInheritance, maxMergeDepth, layoutResult, layoutPc>>
rewriteVars == <<importPath, fromPathArray, toPathArray, newPath, rewritePc>>
graphVars == <<depGraph, changedFile, toCheck, checked, affectedFiles, affectedPages, graphPc>>
buildVars == <<srcFiles, lastBuilt, buildPc>>
composeVars == <<pageBody, mergedSetStatements, document, composePc>>
pagesVars == <<buildKind, sidebarEnabled, tocEnabled, fsFaults, pageList, nextIndex,
               pagePhase, childProc, tempDirs, compileCalls, compileResults, attempts,
               errors, pageCount, buildResult>>
routeVars == <<routeFilePath, route, buildPaths, routePc>>
outVars == <<outTree, indexPage, outPhase, outputFiles, firstOutput, buildRun>>
cfgVars == <<typstInstalled, pagesDirExists, cleanOutput, rootEntries, outputDir, outputAtStart,
             pagesStarted, buildStage>>
dispatchVars == <<changedPath, changedExists, incrOutput, graphBuilt, pagesRebuilt, dispatchPc>>
devVars == <<debounceTimer, rebuilds, reported, rebuildCalls, eventCount>>
cssVars == <<cssResult, cssPc>>
earlyVars == <<scanVars, layoutVars, rewriteVars, graphVars, buildVars, composeVars, pagesVars>>
lateVars == <<routeVars, outVars, cfgVars, dispatchVars, devVars, cssVars>>
\* what the actions of one part leave alone
notRoute == <<earlyVars, outVars, cfgVars, dispatchVars, devVars, cssVars>>
notOut == <<earlyVars, routeVars, cfgVars, dispatchVars, devVars, cssVars>>
notCfg == <<earlyVars, routeVars, outVars, dispatchVars, devVars, cssVars>>
notDispatch == <<earlyVars, routeVars, outVars, cfgVars, devVars, cssVars>>
notDev == <<earlyVars, routeVars, outVars, cfgVars, dispatchVars, cssVars>>
notCss == <<scanVars, rewriteVars, graphVars, buildVars, composeVars, pagesVars,
            routeVars, outVars, cfgVars, dispatchVars, devVars>>
vars == <<earlyVars, lateVars>>

(***************************************************************************)
(* Bounds of the model.                                                    *)
(***************************************************************************)
\* lines of a source handed to isLayoutFile
MaxLines == 3
\* directory levels below pages/
MaxDirDepth == 2
\* largest maxMergeDepth tried
MaxMergeDepthTried == 3
\* set and show statements of a layout body
MaxStatements == 2

(***************************************************************************)
(* Source text.                                                            *)
(***************************************************************************)
Tok(t) == [t |-> t, arg |-> <<>>]
\* leading whitespace of a line
WS == Tok("ws")
\* three backticks
FENCE == Tok("fence")
\* two slashes
COMMENT == Tok("//")
\* text matched by /#let\s+layout\s*\(\s*body\s*\)\s*=/
LETLAYOUT == Tok("#let layout(body) =")
\* any other text
TEXT == Tok("text")
\* #import "<path>", the path split at "/"
IMPORT(path) == [t |-> "#import", arg |-> path]

\* a leaf of a tree: a string (its lines) or a Buffer
Str(lines) == [typeof |-> "string", lines |-> lines]
Buffer == [typeof |-> "object", lines |-> <<>>]

RECURSIVE trimStart(_)
trimStart(line) ==
  IF line # <<>> /\ Head(line) = WS THEN trimStart(Tail(line)) ELSE line

startsWith(line, tok) == line # <<>> /\ Head(line) = tok

TestLayoutPattern(line) == \E i \in 1..Len(line) : line[i] = LETLAYOUT

(***************************************************************************)
(* isLayoutFile (build.js 780-809).                                        *)
(***************************************************************************)
RECURSIVE ScanLines(_, _, _)
ScanLines(lines, i, inCodeBlock) ==
  IF i > Len(lines) THEN FALSE
  ELSE IF startsWith(trimStart(lines[i]), FENCE) THEN ScanLines(lines, i + 1, ~inCodeBlock)
  ELSE IF inCodeBlock THEN ScanLines(lines, i + 1, inCodeBlock)
  ELSE IF startsWith(trimStart(lines[i]), COMMENT) THEN ScanLines(lines, i + 1, inCodeBlock)
  ELSE IF TestLayoutPattern(lines[i]) THEN TRUE
  ELSE ScanLines(lines, i + 1, inCodeBlock)

\* a plausible slip: a fence line is skipped but does not toggle the fence state
RECURSIVE ScanLinesNoToggle(_, _, _)
ScanLinesNoToggle(lines, i, inCodeBlock) ==
  IF i > Len(lines) THEN FALSE
  ELSE IF startsWith(trimStart(lines[i]), FENCE) THEN ScanLinesNoToggle(lines, i + 1, inCodeBlock)
  ELSE IF startsWith(trimStart(lines[i]), COMMENT) THEN ScanLinesNoToggle(lines, i + 1, inCodeBlock)
  ELSE IF TestLayoutPattern(lines[i]) THEN TRUE
  ELSE ScanLinesNoToggle(lines, i + 1, inCodeBlock)

IsLayoutFileNoToggle(source) ==
  IF source.typeof # "string" THEN FALSE ELSE ScanLinesNoToggle(source.lines, 1, FALSE)

isLayoutFile(source) ==
  IF source.typeof # "string" THEN FALSE ELSE ScanLines(source.lines, 1, FALSE)

\* the lines tried: every way a fence, a comment marker and the layout
\* pattern meet on one line
SourceLines ==
  { <<>>, <<TEXT>>, <<LETLAYOUT>>, <<WS, LETLAYOUT>>, <<TEXT, LETLAYOUT>>,
    <<LETLAYOUT, COMMENT>>, <<FENCE>>, <<WS, FENCE>>, <<FENCE, LETLAYOUT>>,
    <<TEXT, FENCE>>, <<COMMENT, LETLAYOUT>>, <<WS, COMMENT, LETLAYOUT>> }

RECURSIVE SeqsUpTo(_, _)
SeqsUpTo(S, n) ==
  IF n = 0 THEN {<<>>}
  ELSE LET shorter == SeqsUpTo(S, n - 1)
       IN shorter \cup {Append(s, x) : s \in {t \in shorter : Len(t) = n - 1}, x \in S}

ScanIdle == typstSource = Buffer /\ isLayoutResult = FALSE /\ scanPc = "idle"

ScanInit ==
  /\ typstSource \in {Str(ls) : ls \in SeqsUpTo(SourceLines, MaxLines)} \cup {Buffer}
  /\ isLayoutResult = FALSE
  /\ scanPc = "call"

CallIsLayoutFile ==
  /\ scanPc = "call"
  /\ isLayoutResult' = isLayoutFile(typstSource)
  /\ scanPc' = "done"
  /\ UNCHANGED <<typstSource, layoutVars, rewriteVars, graphVars, buildVars>>
  /\ UNCHANGED <<composeVars, pagesVars, lateVars>>

(***************************************************************************)
(* Trees (tree.js readTree/walkTree): a tree is a function from the path   *)
(* of each leaf to its content; the directories are the proper prefixes    *)
(* of the leaves' paths.                                                   *)
(***************************************************************************)
PAGES_DIR_NAME == "pages"
INDEX_TYP == "index.typ"

DirNames == <<"a", "b", "c", "d">>
Dir(k) == SubSeq(DirNames, 1, k)
ButLast(p) == SubSeq(p, 1, Len(p) - 1)
Last(p) == p[Len(p)]
IsPrefix(p, q) == Len(p) <= Len(q) /\ SubSeq(q, 1, Len(p)) = p

\* The loop "for (const segment of path) { if (node && typeof node ===
\* "object" && segment in node) node = node[segment]; else found = false }".
Lookup(tree, path) ==
  IF path \in DOMAIN tree THEN [found |-> TRUE, node |-> tree[path]]
  ELSE IF \E q \in DOMAIN tree : IsPrefix(path, q)
       THEN [found |-> TRUE, node |-> Buffer]
       ELSE [found |-> FALSE, node |-> Buffer]

(***************************************************************************)
(* findLayout (build.js 629-714).  Its result is null, one layout object   *)
(* or an array of layout objects.                                          *)
(***************************************************************************)
Null == [kind |-> "null", list |-> <<>>]
Object(l) == [kind |-> "object", list |-> <<l>>]
Array(ls) == [kind |-> "array", list |-> ls]

Layout(indexPath, node, depth) == [pathArray |-> indexPath, source |-> node, level |-> depth]

IsLayoutAt(tree, indexPath) ==
  LET r == Lookup(tree, indexPath)
  IN r.found /\ r.node.typeof = "string" /\ isLayoutFile(r.node)

FindLayoutNone(pagePath, tree) ==
  LET indexPath == Append(ButLast(pagePath), INDEX_TYP)
  IN IF IsLayoutAt(tree, indexPath)
     THEN Object(Layout(indexPath, Lookup(tree, indexPath).node, 0))
     ELSE Null

RECURSIVE FindLayoutWalk(_, _, _, _, _, _)
FindLayoutWalk(currentPath, depth, layouts, tree, mode, maxDepth) ==
  IF mode = "merge" /\ depth >= maxDepth
  THEN Array(layouts)
  ELSE LET indexPath == Append(currentPath, INDEX_TYP)
           isLayout == IsLayoutAt(tree, indexPath)
           layout == Layout(indexPath, Lookup(tree, indexPath).node, depth)
           collected == IF isLayout /\ mode = "merge" THEN Append(layouts, layout) ELSE layouts
       IN IF isLayout /\ mode = "fallback" THEN Object(layout)
          ELSE IF currentPath = <<>>
               THEN (IF mode = "merge" THEN Array(collected) ELSE Null)
               ELSE FindLayoutWalk(ButLast(currentPath), depth + 1, collected, tree, mode, maxDepth)

\* a plausible slip: the walk ends at the first index.typ it meets, layout or not
RECURSIVE WalkStoppingAtIndex(_, _, _, _, _, _)
WalkStoppingAtIndex(currentPath, depth, layouts, tree, mode, maxDepth) ==
  IF mode = "merge" /\ depth >= maxDepth
  THEN Array(layouts)
  ELSE LET indexPath == Append(currentPath, INDEX_TYP)
           isLayout == IsLayoutAt(tree, indexPath)
           layout == Layout(indexPath, Lookup(tree, indexPath).node, depth)
           collected == IF isLayout /\ mode = "merge" THEN Append(layouts, layout) ELSE layouts
       IN IF isLayout /\ mode = "fallback" THEN Object(layout)
          ELSE IF currentPath = <<>> \/ (Lookup(tree, indexPath).found /\ mode = "fallback")
               THEN (IF mode = "merge" THEN Array(collected) ELSE Null)
               ELSE WalkStoppingAtIndex(ButLast(currentPath), depth + 1, collected, tree, mode, maxDepth)

FindLayoutStoppingAtIndex(pagePath, tree, mode, maxDepth) ==
  IF pagePath = <<>> THEN (IF mode = "merge" THEN Array(<<>>) ELSE Null)
  ELSE IF mode = "none" THEN FindLayoutNone(pagePath, tree)
  ELSE WalkStoppingAtIndex(ButLast(pagePath), 0, <<>>, tree, mode, maxDepth)

\* a plausible slip: mode none falls through to the upward walk
FindLayoutNoneWalksUp(pagePath, tree, mode, maxDepth) ==
  IF pagePath = <<>> THEN (IF mode = "merge" THEN Array(<<>>) ELSE Null)
  ELSE FindLayoutWalk(ButLast(pagePath), 0, <<>>, tree,
                      IF mode = "none" THEN "fallback" ELSE mode, maxDepth)

findLayout(pagePath, tree, mode, maxDepth) ==
  IF pagePath = <<>> THEN (IF mode = "merge" THEN Array(<<>>) ELSE Null)
  ELSE IF mode = "none" THEN FindLayoutNone(pagePath, tree)
  ELSE FindLayoutWalk(ButLast(pagePath), 0, <<>>, tree, mode, maxDepth)

\* a real layout, and a page that only displays layout syntax in a code block
LayoutSource == Str(<<<<LETLAYOUT>>, <<TEXT>>>>)
SnippetSource == Str(<<<<TEXT>>, <<FENCE>>, <<LETLAYOUT>>, <<FENCE>>>>)
PageSource == Str(<<<<TEXT>>>>)

InheritanceModes == {"none", "fallback", "merge"}
IndexPaths == {Append(Dir(k), INDEX_TYP) : k \in 0..MaxDirDepth}
PagePaths == {Append(Dir(k), "p.typ") : k \in 0..MaxDirDepth} \cup IndexPaths
FunctionsOnSubsets(S, T) == UNION {[D -> T] : D \in SUBSET S}
LayoutTrees == FunctionsOnSubsets(IndexPaths, {LayoutSource, SnippetSource})

LayoutIdle ==
  /\ pagesTree = <<>> /\ pagePathArray = <<>> /\ layoutInheritance = "fallback"
  /\ maxMergeDepth = 0 /\ layoutResult = Null /\ layoutPc = "idle"

LayoutInit ==
  /\ pagesTree \in LayoutTrees
  /\ pagePathArray \in PagePaths \cup {<<>>}
  /\ layoutInheritance \in InheritanceModes
  /\ maxMergeDepth \in 0..MaxMergeDepthTried
  /\ layoutResult = Null
  /\ layoutPc = "call"

CallFindLayout ==
  /\ layoutPc = "call"
  /\ layoutResult' = findLayout(pagePathArray, pagesTree, layoutInheritance, maxMergeDepth)
  /\ layoutPc' = "done"
  /\ UNCHANGED <<pagesTree, pagePathArray, layoutInheritance, maxMergeDepth,
                 scanVars, rewriteVars, graphVars, buildVars>>
  /\ UNCHANGED <<composeVars, pagesVars, lateVars>>

(***************************************************************************)
(* Paths: path.normalize(path.join(dir, p)) on segments.                   *)
(***************************************************************************)
RECURSIVE NormalizeFrom(_, _)
NormalizeFrom(stack, segs) ==
  IF segs = <<>> THEN stack
  ELSE LET s == Head(segs)
       IN IF s = "." THEN NormalizeFrom(stack, Tail(segs))
          ELSE IF s = ".."
               THEN IF stack # <<>> /\ Last(stack) # ".."
                    THEN NormalizeFrom(ButLast(stack), Tail(segs))
                    ELSE NormalizeFrom(Append(stack, ".."), Tail(segs))
               ELSE NormalizeFrom(Append(stack, s), Tail(segs))

normalize(segs) ==
  LET r == NormalizeFrom(<<>>, segs) IN IF r = <<>> THEN <<".">> ELSE r

\* importPath.startsWith(".")
IsRelativeImport(path) == path # <<>> /\ Head(path) \in {".", ".."}

RECURSIVE Repeat(_, _)
Repeat(x, n) == IF n <= 0 THEN <<>> ELSE <<x>> \o Repeat(x, n - 1)

(***************************************************************************)
(* rewriteImports (build.js 723-747): the replacement callback, applied to *)
(* the path of one #import directive.  The result is the path written in   *)
(* the output.                                                             *)
(***************************************************************************)
\* parts.findIndex((part) => part !== ".."), 0-based, -1 when there is none
FindIndexNotUp(parts) ==
  IF \A i \in 1..Len(parts) : parts[i] = ".." THEN -1
  ELSE (CHOOSE i \in 1..Len(parts) :
          parts[i] # ".." /\ \A j \in 1..(i - 1) : parts[j] = "..") - 1

\* absolutePath.pop(), n times (a pop of an empty array does nothing)
PopN(path, n) == SubSeq(path, 1, IF Len(path) > n THEN Len(path) - n ELSE 0)

\* a plausible slip: the path is not prefixed with the way up from toDir
RewriteImportNoPrefix(path, fromPath, toPath) ==
  IF ~IsRelativeImport(path) THEN path
  ELSE LET upCount == FindIndexNotUp(path)
           pathSegments == IF upCount = -1 THEN <<>> ELSE SubSeq(path, upCount + 1, Len(path))
           absolutePath ==
             PopN(<<PAGES_DIR_NAME>> \o ButLast(fromPath),
                  IF upCount = -1 THEN Len(path) ELSE upCount) \o pathSegments
       IN IF absolutePath # <<>> /\ Head(absolutePath) = PAGES_DIR_NAME
          THEN Tail(absolutePath) ELSE absolutePath

RewriteImport(path, fromPath, toPath) ==
  IF ~IsRelativeImport(path) THEN path
  ELSE LET fromDir == ButLast(fromPath)
           toDir == ButLast(toPath)
           upCount == FindIndexNotUp(path)
           pathSegments == IF upCount = -1 THEN <<>> ELSE SubSeq(path, upCount + 1, Len(path))
           absolutePath ==
             PopN(<<PAGES_DIR_NAME>> \o fromDir,
                  IF upCount = -1 THEN Len(path) ELSE upCount) \o pathSegments
           tempDirPath ==
             IF absolutePath # <<>> /\ Head(absolutePath) = PAGES_DIR_NAME
             THEN Tail(absolutePath) ELSE absolutePath
       IN Repeat("..", Len(toDir)) \o tempDirPath

\* source.replace(/#import\s+"([^"]+)"/g, callback) on every line
RewriteLine(line, fromPath, toPath) ==
  [i \in 1..Len(line) |->
     IF line[i].t = "#import"
     THEN IMPORT(RewriteImport(line[i].arg, fromPath, toPath))
     ELSE line[i]]

rewriteImports(source, fromPath, toPath) ==
  Str([i \in 1..Len(source.lines) |-> RewriteLine(source.lines[i], fromPath, toPath)])

(***************************************************************************)
(* composeDocument (build.js 971-1065) and what it calls.  A document is   *)
(* a sequence of lines, as a source is.                                    *)
(***************************************************************************)
\* an opening brace, a closing brace
OPEN == Tok("{")
CLOSE == Tok("}")
\* the end of a line, in a source joined into one string
NL == Tok("newline")
\* text matched by /(set|show)\s+\w+\([^)]*(?:\([^)]*\)[^)]*)*\)/: the word
\* after set or show (the kind), and the rest of the statement
SET(kind, value) == [t |-> "set", arg |-> <<kind, value>>]
SHOW(kind, value) == [t |-> "show", arg |-> <<kind, value>>]
\* the invocation of the layout around the page body
LAYOUTCALL == Tok("#layout[")
BRACKET == Tok("]")

\* the lines of a source as one string
RECURSIVE JoinLines(_)
JoinLines(lines) ==
  IF lines = <<>> THEN <<>>
  ELSE IF Len(lines) = 1 THEN lines[1]
  ELSE lines[1] \o <<NL>> \o JoinLines(Tail(lines))

IsSpace(tok) == tok = WS \/ tok = NL

\* layoutSource.match(/#let\s+layout\s*\([^)]*\)\s*=\s*\{([\s\S]*)\}/)[1]:
\* the text between the brace that follows the first "#let layout(...) ="
\* and the last closing brace of the source; no match gives no body
LayoutBody(text) ==
  LET braceAfter(i) ==
        {j \in (i + 1)..Len(text) :
           text[j] = OPEN /\ \A k \in (i + 1)..(j - 1) : IsSpace(text[k])}
      closeAfter(j) == {c \in (j + 1)..Len(text) : text[c] = CLOSE}
      starts == {i \in 1..Len(text) :
                   /\ text[i] = LETLAYOUT
                   /\ \E j \in braceAfter(i) : closeAfter(j) # {}}
  IN IF starts = {} THEN [matched |-> FALSE, body |-> <<>>]
     ELSE LET i == CHOOSE x \in starts : \A y \in starts : x <= y
              j == CHOOSE x \in braceAfter(i) : TRUE
              c == CHOOSE x \in closeAfter(j) : \A y \in closeAfter(j) : y <= x
          IN [matched |-> TRUE, body |-> SubSeq(text, j + 1, c - 1)]

\* a set or show statement that only white space separates from the start
\* of its line: /(^|\n)\s*(set|show)\s+\w+\(...\)/gm
IsStatementAt(body, k) ==
  /\ body[k].t \in {"set", "show"}
  /\ \A m \in 1..(k - 1) :
       (\A n \in m..(k - 1) : body[n] # NL) => body[m] = WS

RECURSIVE StatementsFrom(_, _)
StatementsFrom(body, k) ==
  IF k > Len(body) THEN <<>>
  ELSE (IF IsStatementAt(body, k) THEN <<body[k]>> ELSE <<>>)
       \o StatementsFrom(body, k + 1)

extractSetStatements(layoutSource) ==
  LET m == LayoutBody(JoinLines(layoutSource.lines))
  IN IF ~m.matched THEN <<>> ELSE StatementsFrom(m.body, 1)

\* a slip: a kind already in the map keeps its first statement
MapSetKeepingFirst(map, key, statement) ==
  IF \E i \in 1..Len(map) : map[i].key = key THEN map
  ELSE Append(map, [key |-> key, statement |-> statement])

\* a slip: a kind set again moves to the end of the map
MapSetMovingToEnd(map, key, statement) ==
  LET other(e) == e.key # key
  IN Append(SelectSeq(map, other), [key |-> key, statement |-> statement])

\* Map.prototype.set: a new key goes last, a key already in the map keeps
\* its place and takes the new value
MapSet(map, key, statement) ==
  IF \E i \in 1..Len(map) : map[i].key = key
  THEN [i \in 1..Len(map) |->
          IF map[i].key = key THEN [key |-> key, statement |-> statement] ELSE map[i]]
  ELSE Append(map, [key |-> key, statement |-> statement])

\* build.js 1032-1038: only a statement matching /^set\s+(\w+)/ is kept
RECURSIVE SetStatements(_, _)
SetStatements(setMap, statements) ==
  IF statements = <<>> THEN setMap
  ELSE SetStatements(IF Head(statements).t = "set"
                     THEN MapSet(setMap, Head(statements).arg[1], Head(statements))
                     ELSE setMap,
                     Tail(statements))

\* build.js 1023-1039: for (let i = layoutResult.length - 1; i >= 0; i--),
\* i counted from 1 here
RECURSIVE MergeLayouts(_, _, _, _)
MergeLayouts(layouts, i, setMap, pagePath) ==
  IF i < 1 THEN setMap
  ELSE MergeLayouts(layouts, i - 1,
                    SetStatements(setMap,
                                  extractSetStatements(
                                    rewriteImports(layouts[i].source,
                                                   layouts[i].pathArray, pagePath))),
                    pagePath)

\* Array.from(setMap.values())
MapValues(setMap) == [i \in 1..Len(setMap) |-> setMap[i].statement]

\* the lines of mergedSetStatements.join("\n")
StatementLines(statements) ==
  IF statements = <<>> THEN <<<<>>>>
  ELSE [i \in 1..Len(statements) |-> <<statements[i]>>]

\* build.js 949-961
generateMinimalDocument(body) ==
  << <<Tok("#set page(width: 42em, height: auto, margin: (x: 0.25em, y: 0.25em), fill: white)")>>,
     <<>>,
     <<WS, Tok("#set text(fill: black)")>>,
     <<>>,
     <<WS>> \o (IF body.lines = <<>> THEN <<>> ELSE Head(body.lines)) >>
  \o (IF body.lines = <<>> THEN <<>> ELSE Tail(body.lines))
  \o <<<<WS>>>>

\* build.js 988-1005
generateSingleLayoutDocument(layout, body, pagePath) ==
  rewriteImports(layout.source, layout.pathArray, pagePath).lines
  \o << <<>>, <<LAYOUTCALL>> >>
  \o rewriteImports(body, pagePath, pagePath).lines
  \o <<<<BRACKET>>>>

RECURSIVE AllSources(_, _)
AllSources(layouts, pagePath) ==
  IF layouts = <<>> THEN <<>>
  ELSE rewriteImports(Head(layouts).source, Head(layouts).pathArray, pagePath).lines
       \o <<<<>>>> \o AllSources(Tail(layouts), pagePath)

\* a slip: the full source of every layout is emitted
MergedDocumentOfAllSources(merged, layouts, body, pagePath) ==
  StatementLines(merged)
  \o <<<<>>>>
  \o AllSources(layouts, pagePath)
  \o <<<<LAYOUTCALL>>>>
  \o rewriteImports(body, pagePath, pagePath).lines
  \o <<<<BRACKET>>>>

\* build.js 1043-1061
MergedDocument(merged, layouts, body, pagePath) ==
  StatementLines(merged)
  \o <<<<>>>>
  \o rewriteImports(layouts[1].source, layouts[1].pathArray, pagePath).lines
  \o << <<>>, <<LAYOUTCALL>> >>
  \o rewriteImports(body, pagePath, pagePath).lines
  \o <<<<BRACKET>>>>

\* a slip: one layout in merge mode takes the path of several
ComposeDocumentMergingOne(layouts, body, pagePath, mode) ==
  IF layouts.list = <<>>
  THEN [merged |-> <<>>, document |-> generateMinimalDocument(body)]
  ELSE IF mode \in {"none", "fallback"}
  THEN [merged |-> <<>>,
        document |-> generateSingleLayoutDocument(layouts.list[1], body, pagePath)]
  ELSE LET merged == MapValues(MergeLayouts(layouts.list, Len(layouts.list), <<>>, pagePath))
       IN [merged |-> merged,
           document |-> MergedDocument(merged, layouts.list, body, pagePath)]

\* composeDocument(layoutResult, pageBody, pagePathArray, layoutInheritance):
\* the document, and the merged set statements when there are any
composeDocument(layouts, body, pagePath, mode) ==
  IF layouts.kind = "null" \/ (layouts.kind = "array" /\ layouts.list = <<>>)
  THEN [merged |-> <<>>, document |-> generateMinimalDocument(body)]
  ELSE IF mode \in {"none", "fallback"}
  THEN [merged |-> <<>>,
        document |-> generateSingleLayoutDocument(layouts.list[1], body, pagePath)]
  ELSE IF mode = "merge" /\ layouts.kind = "array"
  THEN IF Len(layouts.list) = 1
       THEN [merged |-> <<>>,
             document |-> generateSingleLayoutDocument(layouts.list[1], body, pagePath)]
       ELSE LET merged ==
                  MapValues(MergeLayouts(layouts.list, Len(layouts.list), <<>>, pagePath))
            IN [merged |-> merged,
                document |-> MergedDocument(merged, layouts.list, body, pagePath)]
  ELSE [merged |-> <<>>, document |-> generateMinimalDocument(body)]

\* buildPage (build.js 500-521) composes the document of a page below a/b/
\* from what findLayout returns for it
ComposePage == <<"a", "b", "p.typ">>
ComposeIndexPaths == {<<"a", "b", INDEX_TYP>>, <<"a", INDEX_TYP>>, <<INDEX_TYP>>}
\* the value a layout gives its statements: the layout's directory
ValueAt(indexPath) == IF Len(indexPath) = 1 THEN "pages" ELSE indexPath[Len(indexPath) - 1]

LayoutWith(statements) ==
  Str(<< <<LETLAYOUT, WS, OPEN>> >>
      \o [i \in 1..Len(statements) |-> <<WS, statements[i]>>]
      \o << <<WS, TEXT>>, <<CLOSE>> >>)

\* the layouts an index.typ may hold: up to MaxStatements set statements of
\* two kinds, a show statement before a set statement, a set statement that
\* does not start its line, a layout that imports, a layout without braces
LayoutsAt(indexPath) ==
  LET v == ValueAt(indexPath)
  IN {LayoutWith(s) : s \in SeqsUpTo({SET("text", v), SET("page", v)}, MaxStatements)}
     \cup {LayoutWith(<<SHOW("heading", v), SET("text", v)>>),
           Str(<< <<LETLAYOUT, WS, OPEN>>, <<TEXT, WS, SET("page", v)>>, <<CLOSE>> >>),
           Str(<< <<IMPORT(<<".", "u.typ">>)>>, <<LETLAYOUT, WS, OPEN>>,
                  <<WS, SET("text", v)>>, <<CLOSE>> >>),
           LayoutSource}

ComposeBody == Str(<< <<IMPORT(<<".", "u.typ">>)>>, <<TEXT>> >>)

\* no index.typ in a directory
NoIndex == [typeof |-> "undefined", lines |-> <<>>]

ComposeTree(own, parent, root) ==
  LET at == (<<"a", "b", INDEX_TYP>> :> own) @@ (<<"a", INDEX_TYP>> :> parent)
            @@ (<<INDEX_TYP>> :> root)
  IN [p \in {q \in ComposeIndexPaths : at[q] # NoIndex} \cup {ComposePage} |->
        IF p = ComposePage THEN ComposeBody ELSE at[p]]

ComposeTrees ==
  {ComposeTree(own, parent, root) :
     own \in LayoutsAt(<<"a", "b", INDEX_TYP>>) \cup {NoIndex},
     parent \in LayoutsAt(<<"a", INDEX_TYP>>) \cup {NoIndex},
     root \in LayoutsAt(<<INDEX_TYP>>) \cup {NoIndex}}

ComposeIdle ==
  /\ pageBody = Str(<<>>) /\ mergedSetStatements = <<>> /\ document = <<>>
  /\ composePc = "idle"

ComposeInit ==
  /\ pagesTree \in ComposeTrees
  /\ pagePathArray = ComposePage
  /\ layoutInheritance \in InheritanceModes
  /\ maxMergeDepth \in {MaxMergeDepthTried - 1, MaxMergeDepthTried}
  /\ layoutResult = Null
  /\ layoutPc = "call"
  /\ pageBody = ComposeBody
  /\ mergedSetStatements = <<>> /\ document = <<>>
  /\ composePc = "call"

CallComposeDocument ==
  /\ layoutPc = "done"
  /\ composePc = "call"
  /\ LET r == composeDocument(layoutResult, pageBody, pagePathArray, layoutInheritance)
     IN /\ mergedSetStatements' = r.merged
        /\ document' = r.document
  /\ composePc' = "done"
  /\ UNCHANGED <<pageBody, scanVars, layoutVars, rewriteVars, graphVars, buildVars, pagesVars,
                 lateVars>>

(***************************************************************************)
(* setupTempDirectory (build.js 365-387): the sandbox as a function from   *)
(* each path below the sandbox root to the source file copied there.  The  *)
(* pages directory is copied first, then every other directory of the      *)
(* source root under its own name; a later copy overwrites an earlier one. *)
(***************************************************************************)
EXCLUDE_DIRS == {"node_modules", ".git", "build"}
TempDirNames == {"tssg-1"}
isExcludedDir(name) == name \in EXCLUDE_DIRS \/ name \in TempDirNames

HasExcludedSegment(path) == \E i \in 1..Len(path) : isExcludedDir(path[i])

setupTempDirectory(files) ==
  LET fromPages == {k \in DOMAIN files :
                      Len(k) >= 2 /\ Head(k) = PAGES_DIR_NAME /\ ~HasExcludedSegment(Tail(k))}
      fromOthers == {k \in DOMAIN files :
                      Len(k) >= 2 /\ Head(k) # PAGES_DIR_NAME /\ ~HasExcludedSegment(k)}
  IN [s \in {Tail(k) : k \in fromPages} \cup fromOthers |->
        IF s \in fromOthers THEN s ELSE <<PAGES_DIR_NAME>> \o s]

(***************************************************************************)
(* The source directory: a function from the path of each file, relative   *)
(* to the source root, to its content.                                     *)
(***************************************************************************)
Range(s) == {s[i] : i \in DOMAIN s}

TypNames == {"index.typ", "p.typ", "u.typ", "gone.typ", "a.typ"}
Extname(name) == IF name \in TypNames THEN ".typ" ELSE IF name = "index.css" THEN ".css" ELSE ""

\* readTree's shouldIgnore, with its default ignore list (tree.js 23, 35-39)
shouldIgnore(name) == name \in {"node_modules", ".git"}

\* readTree(rootPath, { extensions }) (tree.js 22-86)
readTree(files, rootPath, extensions) ==
  LET n == Len(rootPath)
      rel(k) == SubSeq(k, n + 1, Len(k))
      kept == {k \in DOMAIN files :
                 /\ Len(k) > n /\ IsPrefix(rootPath, k)
                 /\ \A i \in (n + 1)..Len(k) : ~shouldIgnore(k[i])
                 /\ Extname(Last(k)) \in extensions}
  IN [p \in {rel(k) : k \in kept} |-> files[rootPath \o p]]

\* every path of #import "<path>" in a source (build.js 52-55)
ImportPathsOf(source) ==
  UNION {{line[j].arg : j \in {j \in 1..Len(line) : line[j].t = "#import"}} :
         line \in Range(source.lines)}

(***************************************************************************)
(* walkTypstDirectory (build.js 36-68) from the source root: the key of    *)
(* every .typ file outside the excluded directories, with the set of its   *)
(* relative imports, each resolved against the file's directory.           *)
(***************************************************************************)
walkTypstDirectory(files) ==
  [relPath \in {k \in DOMAIN files : ~HasExcludedSegment(k) /\ Extname(Last(k)) = ".typ"} |->
     {normalize(ButLast(relPath) \o imp) :
        imp \in {p \in ImportPathsOf(files[relPath]) : IsRelativeImport(p)}}]

(***************************************************************************)
(* buildCompleteDependencyGraph (build.js 251-293).                        *)
(***************************************************************************)
pagesRelativeToSrc == <<PAGES_DIR_NAME>>

\* the test of build.js 260-263 (and 174-183, 348-350): a .typ leaf that is
\* not an index.typ defining a layout
IsPageLeaf(tree, pathArray) ==
  /\ pathArray \in DOMAIN tree
  /\ Extname(Last(pathArray)) = ".typ"
  /\ ~(Last(pathArray) = INDEX_TYP /\ isLayoutFile(tree[pathArray]))

PagesOf(tree) == {p \in DOMAIN tree : IsPageLeaf(tree, p)}

\* a plausible slip: the layout's key lacks the pages directory
LayoutPathArrayOnly(layoutPathArray) == layoutPathArray

LayoutPathInSrc(layoutPathArray) == pagesRelativeToSrc \o layoutPathArray

PagePathInSrc(pathArray) == pagesRelativeToSrc \o pathArray

buildCompleteDependencyGraph(files, tree, mode, maxDepth) ==
  LET scanned == walkTypstDirectory(files)
      pageKeys == {PagePathInSrc(p) : p \in PagesOf(tree)}
      layoutDeps(p) ==
        {LayoutPathInSrc(l.pathArray) : l \in Range(findLayout(p, tree, mode, maxDepth).list)}
  IN [k \in DOMAIN scanned \cup pageKeys |->
        (IF k \in DOMAIN scanned THEN scanned[k] ELSE {})
        \cup (IF k \in pageKeys THEN layoutDeps(SubSeq(k, Len(pagesRelativeToSrc) + 1, Len(k))) ELSE {})]

(***************************************************************************)
(* findAffectedPages (build.js 303-356).                                   *)
(***************************************************************************)
\* the order in which a Map or a Set is iterated: some fixed order
RECURSIVE SetToSeq(_)
SetToSeq(S) ==
  IF S = {} THEN <<>>
  ELSE LET x == CHOOSE x \in S : TRUE IN <<x>> \o SetToSeq(S \ {x})

\* Set.add on a Set kept in insertion order
SetAdd(seq, x) == IF x \in Range(seq) THEN seq ELSE Append(seq, x)

RECURSIVE SetAddAll(_, _)
SetAddAll(seq, xs) ==
  IF xs = <<>> THEN seq ELSE SetAddAll(SetAdd(seq, Head(xs)), Tail(xs))

DependentsOf(graph, current) ==
  LET depends(file) == current \in graph[file]
  IN SelectSeq(SetToSeq(DOMAIN graph), depends)

\* a plausible slip: the dependents of a file are recorded but not followed
AffectedIterDirectOnly(st, graph) ==
  LET current == Last(st.toCheck)
      dependents == DependentsOf(graph, current)
  IN [toCheck |-> ButLast(st.toCheck),
      checked |-> st.checked \cup {current},
      affectedFiles |-> SetAddAll(st.affectedFiles, dependents)]

\* a plausible slip: no test of the checked set
AffectedIterNoChecked(st, graph) ==
  LET current == Last(st.toCheck)
      dependents == DependentsOf(graph, current)
  IN [toCheck |-> ButLast(st.toCheck) \o dependents,
      checked |-> st.checked \cup {current},
      affectedFiles |-> SetAddAll(st.affectedFiles, dependents)]

\* one iteration of the while loop (build.js 313-324)
AffectedIter(st, graph) ==
  LET current == Last(st.toCheck)
      dependents == DependentsOf(graph, current)
  IN IF current \in st.checked
     THEN [st EXCEPT !.toCheck = ButLast(st.toCheck)]
     ELSE [toCheck |-> ButLast(st.toCheck) \o dependents,
           checked |-> st.checked \cup {current},
           affectedFiles |-> SetAddAll(st.affectedFiles, dependents)]

\* filePath.startsWith(pagesRelativeToSrc + "/")
StartsWithPagesDir(filePath) ==
  Len(filePath) > Len(pagesRelativeToSrc) /\ IsPrefix(pagesRelativeToSrc, filePath)

\* the page a key names, if it names one (build.js 332-352)
IsAffectedPage(filePath, tree) ==
  /\ StartsWithPagesDir(filePath)
  /\ LET pathParts == SubSeq(filePath, Len(pagesRelativeToSrc) + 1, Len(filePath))
         r == Lookup(tree, pathParts)
     IN /\ r.found
        /\ r.node.typeof = "string"
        /\ ~(Last(pathParts) = INDEX_TYP /\ isLayoutFile(r.node))

RECURSIVE PagesAmong(_, _)
PagesAmong(filePaths, tree) ==
  IF filePaths = <<>> THEN <<>>
  ELSE LET filePath == Head(filePaths)
           pathParts == SubSeq(filePath, Len(pagesRelativeToSrc) + 1, Len(filePath))
       IN (IF IsAffectedPage(filePath, tree)
           THEN <<[pathArray |-> pathParts, content |-> Lookup(tree, pathParts).node]>>
           ELSE <<>>) \o PagesAmong(Tail(filePaths), tree)

\* build.js 326-355
AffectedFilter(changed, affected, tree) ==
  PagesAmong(IF StartsWithPagesDir(changed) THEN SetAdd(affected, changed) ELSE affected, tree)

RECURSIVE AffectedLoop(_, _)
AffectedLoop(st, graph) ==
  IF st.toCheck = <<>> THEN st ELSE AffectedLoop(AffectedIter(st, graph), graph)

findAffectedPages(changed, graph, tree) ==
  AffectedFilter(changed,
                 AffectedLoop([toCheck |-> <<changed>>, checked |-> {}, affectedFiles |-> <<>>],
                              graph).affectedFiles,
                 tree)

(***************************************************************************)
(* The page builds of build (build.js 188-243) and of buildIncremental     *)
(* (build.js 1175-1200), buildPage (build.js 490-613) and compileTypst     *)
(* (server.js 330-421).  The code between two awaits runs as one step.     *)
(* Pages are numbered in the order the build selects them.                 *)
(***************************************************************************)
concurrencyLimit == 4
\* pages of the largest site built
MaxPages == 5

\* pages started together: a batch in build, one page in buildIncremental
BatchSize(kind) == IF kind = "full" THEN concurrencyLimit ELSE 1

\* a slip: a batch of one page more
BatchEndPastLimit(kind, start, n) ==
  IF start + BatchSize(kind) + 1 < n THEN start + BatchSize(kind) + 1 ELSE n

\* pages.slice(i, i + concurrencyLimit): the index past the last page of
\* the batch that starts after page number start
BatchEnd(kind, start, n) ==
  IF start + BatchSize(kind) < n THEN start + BatchSize(kind) ELSE n

Settled(phase) == phase \in {"built", "failed"}

\* what the file system does to the calls of one step: fs.rmSync,
\* fs.mkdtempSync, setupTempDirectory, fs.writeFileSync of input.typ and
\* of the viewer
Environments(faults) ==
  IF faults
  THEN [rmOk : BOOLEAN, createOk : BOOLEAN, setupOk : BOOLEAN, inputOk : BOOLEAN,
        htmlOk : BOOLEAN]
  ELSE {[rmOk |-> TRUE, createOk |-> TRUE, setupOk |-> TRUE, inputOk |-> TRUE,
         htmlOk |-> TRUE]}

\* cleanupTempDir (server.js 308-318): a removal that fails is only logged
cleanupTempDir(rmOk) == IF rmOk THEN "removed" ELSE "left"

\* a slip: the result of a process that was killed reads its exit code
CloseResultByCodeOnly(timedOut, code) == IF code # 0 THEN "compiler" ELSE "ok"

\* the result compileTypst resolves with when the process closes
\* (server.js 386-413): success is false unless it is "ok"
CloseResult(timedOut, code) ==
  IF timedOut THEN "timeout" ELSE IF code # 0 THEN "compiler" ELSE "ok"

\* a slip: the sandbox is cleaned up on the successful path only
ThrowWithoutCleanup(ps, error, env) ==
  [ps EXCEPT !.phase = "failed", !.proc = "none", !.error = error]

\* a throw inside the try of buildPage: the finally block, then rejection
\* (build.js 610-612)
Throw(ps, error, env) ==
  [ps EXCEPT !.phase = "failed", !.proc = "none",
             !.tempDir = cleanupTempDir(env.rmOk), !.error = error]

\* compileTypst up to the spawn (server.js 337-376)
StartCompile(ps, doc, env) ==
  IF env.inputOk
  THEN [ps EXCEPT !.phase = doc, !.proc = "running", !.calls = Append(@, doc)]
  ELSE Throw([ps EXCEPT !.calls = Append(@, doc),
                        !.results = Append(@, [doc |-> doc, outcome |-> "rejected"])],
             "thrown", env)

\* build.js 599-612
WriteViewer(ps, env) ==
  IF env.htmlOk
  THEN [ps EXCEPT !.phase = "built", !.proc = "none",
                  !.tempDir = cleanupTempDir(env.rmOk)]
  ELSE Throw(ps, "thrown", env)

\* buildPage up to its first await (build.js 490-542)
BeginPage(env) ==
  LET ps == [phase |-> "pending", proc |-> "none", tempDir |-> "created",
             calls |-> <<>>, results |-> <<>>, error |-> ""]
  IN IF ~env.createOk
     THEN [ps EXCEPT !.phase = "failed", !.tempDir = "none", !.error = "thrown"]
     ELSE IF env.setupOk THEN StartCompile(ps, "page", env)
     ELSE Throw(ps, "thrown", env)

\* buildPage from the await of a compilation that resolved to its next
\* await or to its end (build.js 544-612)
AfterCompile(ps, outcome, sidebar, toc, env) ==
  LET ps1 == [ps EXCEPT !.proc = "none",
                        !.results = Append(@, [doc |-> ps.phase, outcome |-> outcome])]
  IN IF ps.phase = "page" /\ outcome # "ok" THEN Throw(ps1, outcome, env)
     ELSE IF ps.phase = "page" /\ sidebar THEN StartCompile(ps1, "sidebar", env)
     ELSE IF ps.phase \in {"page", "sidebar"} /\ toc THEN StartCompile(ps1, "toc", env)
     ELSE WriteViewer(ps1, env)

\* buildPage after a compilation that rejected (server.js 415-419)
AfterReject(ps, env) ==
  Throw([ps EXCEPT !.results = Append(@, [doc |-> ps.phase, outcome |-> "rejected"])],
        "thrown", env)

\* a slip: a failed page leaves no entry
RecordNothing(errs, p, error) == errs

\* errors.push(errorMsg) in the catch around buildPage (build.js 207-213,
\* 1186-1190)
RecordFailure(errs, p, error) == Append(errs, [page |-> p, error |-> error])

\* buildPromises.filter((r) => r.success).length (build.js 221)
SucceededCount(phases) == Cardinality({p \in DOMAIN phases : phases[p] = "built"})

PageState(p) ==
  [phase |-> pagePhase[p], proc |-> childProc[p], tempDir |-> tempDirs[p],
   calls |-> compileCalls[p], results |-> compileResults[p], error |-> ""]

\* the pages of a step and the state each is left in
SetPages(ps) ==
  /\ pagePhase' = [p \in DOMAIN pagePhase |-> IF p \in DOMAIN ps THEN ps[p].phase ELSE pagePhase[p]]
  /\ childProc' = [p \in DOMAIN childProc |-> IF p \in DOMAIN ps THEN ps[p].proc ELSE childProc[p]]
  /\ tempDirs' = [p \in DOMAIN tempDirs |-> IF p \in DOMAIN ps THEN ps[p].tempDir ELSE tempDirs[p]]
  /\ compileCalls' = [p \in DOMAIN compileCalls |->
                        IF p \in DOMAIN ps THEN ps[p].calls ELSE compileCalls[p]]
  /\ compileResults' = [p \in DOMAIN compileResults |->
                          IF p \in DOMAIN ps THEN ps[p].results ELSE compileResults[p]]

\* the catch of each page that failed, in page order
RECURSIVE RecordFailures(_, _, _, _)
RecordFailures(errs, ps, p, last) ==
  IF p > last THEN errs
  ELSE RecordFailures(IF ps[p].phase = "failed" THEN RecordFailure(errs, p, ps[p].error)
                      ELSE errs,
                      ps, p + 1, last)

\* the settling of one page: the catch, or pageCount++ (build.js 1181)
SettlePage(p, ps) ==
  /\ errors' = IF ps.phase = "failed" THEN RecordFailure(errors, p, ps.error) ELSE errors
  /\ pageCount' = IF ps.phase = "built" /\ buildKind = "incremental"
                  THEN pageCount + 1 ELSE pageCount

NoResult == [returned |-> FALSE, success |-> FALSE, pageCount |-> 0, errors |-> <<>>]

configVars == <<buildKind, sidebarEnabled, tocEnabled, fsFaults, pageList>>
otherVars == <<scanVars, layoutVars, rewriteVars, graphVars, buildVars, composeVars, lateVars>>

PagesIdle ==
  /\ buildKind = "idle" /\ sidebarEnabled = FALSE /\ tocEnabled = FALSE
  /\ fsFaults = FALSE /\ pageList = <<>> /\ nextIndex = 0
  /\ pagePhase = <<>> /\ childProc = <<>> /\ tempDirs = <<>>
  /\ compileCalls = <<>> /\ compileResults = <<>> /\ attempts = <<>>
  /\ errors = <<>> /\ pageCount = 0 /\ buildResult = NoResult

\* the state of a build that has selected n pages
PagesSelected(n) ==
  /\ pageList = [p \in 1..n |-> p]
  /\ nextIndex = 0
  /\ pagePhase = [p \in 1..n |-> "pending"]
  /\ childProc = [p \in 1..n |-> "none"]
  /\ tempDirs = [p \in 1..n |-> "none"]
  /\ compileCalls = [p \in 1..n |-> <<>>]
  /\ compileResults = [p \in 1..n |-> <<>>]
  /\ attempts = [p \in 1..n |-> 0]
  /\ errors = <<>> /\ pageCount = 0 /\ buildResult = NoResult

\* a site without sidebar and table of contents, on a file system that
\* does not fail
PagesInit ==
  /\ buildKind \in {"full", "incremental"}
  /\ sidebarEnabled = FALSE /\ tocEnabled = FALSE /\ fsFaults = FALSE
  /\ \E n \in 0..MaxPages : PagesSelected(n)

\* a site of one page
OnePageInit ==
  /\ buildKind \in {"full", "incremental"}
  /\ sidebarEnabled \in BOOLEAN /\ tocEnabled \in BOOLEAN /\ fsFaults \in BOOLEAN
  /\ PagesSelected(1)

\* one iteration of the loop over the pages, up to its await: the pages of
\* the batch run buildPage up to their first await
LaunchBatch ==
  /\ buildKind # "idle" /\ ~buildResult.returned
  /\ nextIndex < Len(pageList)
  /\ \A p \in 1..nextIndex : Settled(pagePhase[p])
  /\ LET last == BatchEnd(buildKind, nextIndex, Len(pageList))
         batch == (nextIndex + 1)..last
     IN /\ \E env \in [batch -> Environments(fsFaults)] :
             LET ps == [p \in batch |-> BeginPage(env[p])]
             IN /\ SetPages(ps)
                /\ errors' = RecordFailures(errors, ps, nextIndex + 1, last)
        /\ attempts' = [p \in DOMAIN attempts |->
                          IF p \in batch THEN attempts[p] + 1 ELSE attempts[p]]
        /\ nextIndex' = last
  /\ UNCHANGED <<configVars, pageCount, buildResult, otherVars>>

\* the timer of compileTypst fires (server.js 373-376)
TimeoutFires(p) ==
  /\ p \in DOMAIN childProc /\ childProc[p] = "running"
  /\ childProc' = [childProc EXCEPT ![p] = "killed"]
  /\ UNCHANGED <<configVars, nextIndex, pagePhase, tempDirs, compileCalls, compileResults,
                 attempts, errors, pageCount, buildResult, otherVars>>

\* the compiler process closes (server.js 386-413) and buildPage goes on
ProcClose(p, code) ==
  /\ p \in DOMAIN childProc /\ childProc[p] \in {"running", "killed"}
  /\ \E env \in Environments(fsFaults) :
       LET ps == AfterCompile(PageState(p), CloseResult(childProc[p] = "killed", code),
                              sidebarEnabled, tocEnabled, env)
       IN SetPages(p :> ps) /\ SettlePage(p, ps)
  /\ UNCHANGED <<configVars, nextIndex, attempts, buildResult, otherVars>>

\* the compiler process cannot be spawned (server.js 415-419)
ProcError(p) ==
  /\ p \in DOMAIN childProc /\ childProc[p] = "running"
  /\ \E env \in Environments(fsFaults) :
       LET ps == AfterReject(PageState(p), env)
       IN SetPages(p :> ps) /\ SettlePage(p, ps)
  /\ UNCHANGED <<configVars, nextIndex, attempts, buildResult, otherVars>>

\* the loop has ended: the build returns (build.js 221-242, 1194-1200)
ReturnBuild ==
  /\ buildKind # "idle" /\ ~buildResult.returned
  /\ nextIndex = Len(pageList)
  /\ \A p \in 1..nextIndex : Settled(pagePhase[p])
  /\ pageCount' = IF buildKind = "full" THEN SucceededCount(pagePhase) ELSE pageCount
  /\ buildResult' = [returned |-> TRUE, success |-> errors = <<>>,
                     pageCount |-> pageCount', errors |-> errors]
  /\ UNCHANGED <<configVars, nextIndex, pagePhase, childProc, tempDirs, compileCalls,
                 compileResults, attempts, errors, otherVars>>

(***************************************************************************)
(* build and buildIncremental (build.js 75-243, 1106-1201).  The output of *)
(* a page build is a function of the document composed for the page (its   *)
(* layouts and its body) and of the files that document imports.           *)
(***************************************************************************)
DirectImports(files, key) ==
  IF key \in DOMAIN files /\ Extname(Last(key)) = ".typ"
  THEN {normalize(ButLast(key) \o imp) :
          imp \in {p \in ImportPathsOf(files[key]) : IsRelativeImport(p)}}
  ELSE {}

RECURSIVE ImportClosure(_, _, _)
ImportClosure(files, frontier, seen) ==
  IF frontier \subseteq seen THEN seen
  ELSE ImportClosure(files,
                     UNION {DirectImports(files, k) : k \in frontier \ seen},
                     seen \cup frontier)

PageOutput(files, tree, pathArray, mode, maxDepth) ==
  LET layouts == findLayout(pathArray, tree, mode, maxDepth)
      roots == {PagePathInSrc(pathArray)}
               \cup {PagePathInSrc(l.pathArray) : l \in Range(layouts.list)}
      imported == ImportClosure(files, UNION {DirectImports(files, k) : k \in roots}, {})
  IN [layouts |-> layouts,
      body |-> tree[pathArray],
      imported |-> [k \in imported \cap DOMAIN files |-> files[k]]]

PAGE_EXTENSIONS == {".typ", ".css"}

\* the pages the full build selects (build.js 173-186) and builds (188-219)
BuildAll(files, mode, maxDepth) ==
  LET tree == readTree(files, <<PAGES_DIR_NAME>>, PAGE_EXTENSIONS)
  IN [p \in PagesOf(tree) |-> PageOutput(files, tree, p, mode, maxDepth)]

\* the loop of build.js 1178-1192 over the affected pages
RebuildPages(files, tree, pages, built, mode, maxDepth) ==
  LET rebuilt == {pages[i].pathArray : i \in 1..Len(pages)}
  IN [p \in DOMAIN built \cup rebuilt |->
        IF p \in rebuilt THEN PageOutput(files, tree, p, mode, maxDepth) ELSE built[p]]

\* the files of the source directory and the contents each may have
IndexFile0 == <<"pages", "index.typ">>
IndexFile1 == <<"pages", "a", "index.typ">>
PageFile == <<"pages", "a", "p.typ">>
ExcludedDirPage == <<"pages", "build", "p.typ">>
UtilFile == <<"util", "u.typ">>

LayoutEdited == Str(<<<<LETLAYOUT>>, <<TEXT>>, <<TEXT>>>>)
LayoutImporting == Str(<<<<IMPORT(<<"..", "..", "util", "u.typ">>)>>, <<LETLAYOUT>>>>)
PageImporting == Str(<<<<IMPORT(<<"..", "..", "util", "u.typ">>)>>, <<TEXT>>>>)
UtilSource == Str(<<<<TEXT>>>>)
UtilEdited == Str(<<<<TEXT>>, <<TEXT>>>>)

SourceFiles == {IndexFile0, IndexFile1, PageFile, ExcludedDirPage, UtilFile}

ContentsOf(file) ==
  IF file = IndexFile0 THEN {LayoutSource, LayoutEdited, SnippetSource}
  ELSE IF file = IndexFile1 THEN {LayoutSource, LayoutImporting, SnippetSource}
  ELSE IF file = PageFile THEN {PageSource, PageImporting}
  ELSE IF file = UtilFile THEN {UtilSource, UtilEdited}
  ELSE {PageSource}

SourceDirs ==
  {files \in FunctionsOnSubsets(SourceFiles, UNION {ContentsOf(f) : f \in SourceFiles}) :
     \A f \in DOMAIN files : files[f] \in ContentsOf(f)}

BuildIdle == srcFiles = <<>> /\ lastBuilt = <<>> /\ buildPc = "idle"

BuildInit ==
  /\ srcFiles \in SourceDirs
  /\ layoutInheritance \in InheritanceModes
  /\ maxMergeDepth \in 0..MaxMergeDepthTried
  /\ lastBuilt = <<>>
  /\ buildPc = "start"
  /\ pagesTree = <<>> /\ pagePathArray = <<>> /\ layoutResult = Null /\ layoutPc = "idle"
  /\ depGraph = <<>> /\ changedFile = <<>> /\ toCheck = <<>> /\ checked = {}
  /\ affectedFiles = <<>> /\ affectedPages = <<>> /\ graphPc = "idle"

\* build(): every page of the tree is built
FullBuild ==
  /\ buildPc = "start"
  /\ lastBuilt' = BuildAll(srcFiles, layoutInheritance, maxMergeDepth)
  /\ buildPc' = "built"
  /\ UNCHANGED <<srcFiles, scanVars, layoutVars, rewriteVars, graphVars>>
  /\ UNCHANGED <<composeVars, pagesVars, lateVars>>

\* one .typ file of the source directory is edited
EditFile(file) ==
  /\ buildPc = "built"
  /\ file \in DOMAIN srcFiles
  /\ \E content \in ContentsOf(file) \ {srcFiles[file]} :
       srcFiles' = [srcFiles EXCEPT ![file] = content]
  /\ changedFile' = file
  /\ buildPc' = "changed"
  /\ UNCHANGED <<lastBuilt, scanVars, layoutVars, rewriteVars,
                 depGraph, toCheck, checked, affectedFiles, affectedPages, graphPc>>
  /\ UNCHANGED <<composeVars, pagesVars, lateVars>>

\* one .typ file of the source directory is deleted
DeleteFile(file) ==
  /\ buildPc = "built"
  /\ file \in DOMAIN srcFiles
  /\ srcFiles' = [f \in DOMAIN srcFiles \ {file} |-> srcFiles[f]]
  /\ changedFile' = file
  /\ buildPc' = "changed"
  /\ UNCHANGED <<lastBuilt, scanVars, layoutVars, rewriteVars,
                 depGraph, toCheck, checked, affectedFiles, affectedPages, graphPc>>
  /\ UNCHANGED <<composeVars, pagesVars, lateVars>>

\* buildIncremental(changedFile), build.js 1160-1161
IncrBuildGraph ==
  /\ buildPc = "changed"
  /\ LET tree == readTree(srcFiles, <<PAGES_DIR_NAME>>, PAGE_EXTENSIONS)
     IN /\ pagesTree' = tree
        /\ depGraph' = buildCompleteDependencyGraph(srcFiles, tree, layoutInheritance, maxMergeDepth)
  /\ buildPc' = "graph"
  /\ UNCHANGED <<srcFiles, lastBuilt, scanVars, rewriteVars, pagePathArray, layoutInheritance,
                 maxMergeDepth, layoutResult, layoutPc,
                 changedFile, toCheck, checked, affectedFiles, affectedPages, graphPc>>
  /\ UNCHANGED <<composeVars, pagesVars, lateVars>>

\* buildIncremental(changedFile), build.js 1163-1173
IncrFindAffected ==
  /\ buildPc = "graph"
  /\ affectedPages' = findAffectedPages(changedFile, depGraph, pagesTree)
  /\ buildPc' = "affected"
  /\ UNCHANGED <<srcFiles, lastBuilt, scanVars, layoutVars, rewriteVars,
                 depGraph, changedFile, toCheck, checked, affectedFiles, graphPc>>
  /\ UNCHANGED <<composeVars, pagesVars, lateVars>>

\* buildIncremental(changedFile), build.js 1175-1200
IncrRebuild ==
  /\ buildPc = "affected"
  /\ lastBuilt' = RebuildPages(srcFiles, pagesTree, affectedPages, lastBuilt,
                               layoutInheritance, maxMergeDepth)
  /\ buildPc' = "done"
  /\ UNCHANGED <<srcFiles, scanVars, layoutVars, rewriteVars, graphVars>>
  /\ UNCHANGED <<composeVars, pagesVars, lateVars>>

(***************************************************************************)
(* The parts of the program that a specification does not run.             *)
(***************************************************************************)
NoBuildPath == [dir |-> <<>>, pdfPath |-> <<>>, htmlPath |-> <<>>]
RouteIdle ==
  routeFilePath = <<>> /\ route = <<>> /\ buildPaths = NoBuildPath /\ routePc = "idle"
OutIdle ==
  /\ outTree = <<>> /\ indexPage = "" /\ outPhase = <<>> /\ outputFiles = <<>>
  /\ firstOutput = <<>> /\ buildRun = 0
CfgIdle ==
  /\ typstInstalled = FALSE /\ pagesDirExists = FALSE /\ cleanOutput = FALSE
  /\ rootEntries = {} /\ outputDir = {} /\ outputAtStart = {}
  /\ pagesStarted = 0 /\ buildStage = "idle"
DispatchIdle ==
  /\ changedPath = <<>> /\ changedExists = FALSE /\ incrOutput = {}
  /\ graphBuilt = FALSE /\ pagesRebuilt = {} /\ dispatchPc = "idle"
DevIdle ==
  /\ debounceTimer = "none" /\ rebuilds = <<>> /\ reported = {} /\ rebuildCalls = {}
  /\ eventCount = 0
CssIdle == cssResult = Null /\ cssPc = "idle"
LateIdle == RouteIdle /\ OutIdle /\ CfgIdle /\ DispatchIdle /\ DevIdle /\ CssIdle

(***************************************************************************)
(* pathToRoute and routeToBuildPath (pipeline.js 56-102).  A route and an  *)
(* output path are sequences of pieces: the separator "/" and the names    *)
(* between the separators.                                                 *)
(***************************************************************************)
SLASH == "/"

\* path.basename(filename, path.extname(filename)) of the file names tried
Stem(filename) ==
  CASE filename = "index.typ" -> "index"
    [] filename = "p.typ" -> "p"
    [] filename = "a.typ" -> "a"
    [] filename = "index.css" -> "index"
    [] OTHER -> filename

\* parts.join("/")
RECURSIVE JoinSlash(_)
JoinSlash(parts) ==
  IF parts = <<>> THEN <<>>
  ELSE IF Len(parts) = 1 THEN parts
  ELSE <<parts[1], SLASH>> \o JoinSlash(Tail(parts))

pathToRoute(path) ==
  IF path = <<>> THEN <<SLASH>>
  ELSE IF Last(path) = INDEX_TYP
  THEN IF ButLast(path) = <<>> THEN <<SLASH>>
       ELSE <<SLASH>> \o JoinSlash(ButLast(path)) \o <<SLASH>>
  ELSE IF ButLast(path) = <<>> THEN <<SLASH, Stem(Last(path)), SLASH>>
  ELSE <<SLASH>> \o JoinSlash(ButLast(path)) \o <<SLASH, Stem(Last(path)), SLASH>>

\* route.replace(/^\/+|\/+$/g, "")
RECURSIVE StripLeading(_)
StripLeading(text) ==
  IF text # <<>> /\ Head(text) = SLASH THEN StripLeading(Tail(text)) ELSE text
RECURSIVE StripTrailing(_)
StripTrailing(text) ==
  IF text # <<>> /\ Last(text) = SLASH THEN StripTrailing(ButLast(text)) ELSE text

\* a slip: only the leading separator is removed
RouteToBuildPathKeepingTrail(text) ==
  LET cleanRoute == StripLeading(text)
  IN IF cleanRoute = <<>>
     THEN [dir |-> <<>>, pdfPath |-> <<"index.pdf">>, htmlPath |-> <<"index.html">>]
     ELSE [dir |-> cleanRoute,
           pdfPath |-> cleanRoute \o <<SLASH, "index.pdf">>,
           htmlPath |-> cleanRoute \o <<SLASH, "index.html">>]

routeToBuildPath(text) ==
  LET cleanRoute == StripTrailing(StripLeading(text))
  IN IF cleanRoute = <<>>
     THEN [dir |-> <<>>, pdfPath |-> <<"index.pdf">>, htmlPath |-> <<"index.html">>]
     ELSE [dir |-> cleanRoute,
           pdfPath |-> cleanRoute \o <<SLASH, "index.pdf">>,
           htmlPath |-> cleanRoute \o <<SLASH, "index.html">>]

\* the path arrays tried: a file of one of these names in a directory up to
\* MaxDirDepth levels deep
RouteFileNames == {"index.typ", "p.typ", "a.typ", "index.css", "README", ".typ"}
RouteDirs == SeqsUpTo({"a", "b", "blog"}, MaxDirDepth)
RoutePaths == {Append(dir, name) : dir \in RouteDirs, name \in RouteFileNames}

RouteInit ==
  /\ routeFilePath \in RoutePaths
  /\ route = <<>> /\ buildPaths = NoBuildPath
  /\ routePc = "route"

CallPathToRoute ==
  /\ routePc = "route"
  /\ route' = pathToRoute(routeFilePath)
  /\ routePc' = "paths"
  /\ UNCHANGED <<routeFilePath, buildPaths, notRoute>>

CallRouteToBuildPath ==
  /\ routePc = "paths"
  /\ buildPaths' = routeToBuildPath(route)
  /\ routePc' = "done"
  /\ UNCHANGED <<routeFilePath, route, notRoute>>

(***************************************************************************)
(* The output files of a full build (build.js 120-122, 173-219) and of its *)
(* page builds (build.js 490-498, 537-542, 609), for two builds of one     *)
(* pages tree.  A deterministic compiler writes the same PDF for the same  *)
(* page; a file of the output directory is told by the page it was         *)
(* written for.  buildRun is 1 while the first build runs, 2 when it has   *)
(* returned, 3 while the second build runs, 4 when that has returned.      *)
(***************************************************************************)
\* build.js 491-496: the route of a page, "/" for the configured index page
RouteOfPage(pathArray, index) ==
  IF index # "" /\ Last(pathArray) = index THEN <<SLASH>> ELSE pathToRoute(pathArray)

BuildPathsOfPage(pathArray, index) == routeToBuildPath(RouteOfPage(pathArray, index))

\* the leaves of the pages trees built, and their sources
OutLeaves ==
  {<<INDEX_TYP>>, <<"p.typ">>, <<"a.typ">>, <<"a", INDEX_TYP>>, <<"a", "p.typ">>,
   <<"b", INDEX_TYP>>}
OutSources(leaf) ==
  IF Last(leaf) = INDEX_TYP THEN {LayoutSource, PageSource} ELSE {PageSource}
OutTrees ==
  {tree \in FunctionsOnSubsets(OutLeaves, {LayoutSource, PageSource}) :
     \A leaf \in DOMAIN tree : tree[leaf] \in OutSources(leaf)}

\* the pages in the order build selects them (build.js 173-186)
SelectedOf(tree) == SetToSeq(PagesOf(tree))

\* fs.writeFileSync and the compiler's output: the file is created or replaced
WriteFile(files, path, content) ==
  [f \in DOMAIN files \cup {path} |-> IF f = path THEN content ELSE files[f]]

OutInit ==
  /\ outTree \in OutTrees
  /\ indexPage \in {"", "p.typ"}
  /\ outPhase = [p \in PagesOf(outTree) |-> "pending"]
  /\ outputFiles = <<>>
  /\ firstOutput = <<>>
  /\ buildRun = 1

\* one batch of the loop of build.js 191-219 starts its page builds
OutLaunchBatch ==
  /\ buildRun \in {1, 3}
  /\ \A p \in DOMAIN outPhase : outPhase[p] \in {"pending", "built"}
  /\ \E p \in DOMAIN outPhase : outPhase[p] = "pending"
  /\ LET selected == SelectedOf(outTree)
         start == Cardinality({p \in DOMAIN outPhase : outPhase[p] = "built"})
         batch == {selected[i] : i \in (start + 1)..BatchEnd("full", start, Len(selected))}
     IN outPhase' = [p \in DOMAIN outPhase |-> IF p \in batch THEN "compiling" ELSE outPhase[p]]
  /\ UNCHANGED <<outTree, indexPage, outputFiles, firstOutput, buildRun, notOut>>

\* the compiler writes the PDF of a page (build.js 537-542)
OutCompiled(p) ==
  /\ p \in DOMAIN outPhase /\ outPhase[p] = "compiling"
  /\ outputFiles' = WriteFile(outputFiles, BuildPathsOfPage(p, indexPage).pdfPath, p)
  /\ outPhase' = [outPhase EXCEPT ![p] = "compiled"]
  /\ UNCHANGED <<outTree, indexPage, firstOutput, buildRun, notOut>>

\* buildPage writes the viewer of a page (build.js 599-609)
OutWriteViewer(p) ==
  /\ p \in DOMAIN outPhase /\ outPhase[p] = "compiled"
  /\ outputFiles' = WriteFile(outputFiles, BuildPathsOfPage(p, indexPage).htmlPath, p)
  /\ outPhase' = [outPhase EXCEPT ![p] = "built"]
  /\ UNCHANGED <<outTree, indexPage, firstOutput, buildRun, notOut>>

\* build returns (build.js 221-242)
OutReturn ==
  /\ buildRun \in {1, 3}
  /\ \A p \in DOMAIN outPhase : outPhase[p] = "built"
  /\ buildRun' = buildRun + 1
  /\ firstOutput' = IF buildRun = 1 THEN outputFiles ELSE firstOutput
  /\ UNCHANGED <<outTree, indexPage, outPhase, outputFiles, notOut>>

\* build is called again on the unchanged tree: it empties the output
\* directory (build.js 120-122) and selects the pages
OutBuildAgain ==
  /\ buildRun = 2
  /\ buildRun' = 3
  /\ outputFiles' = <<>>
  /\ outPhase' = [p \in PagesOf(outTree) |-> "pending"]
  /\ UNCHANGED <<outTree, indexPage, firstOutput, notOut>>

(***************************************************************************)
(* build up to its page builds (build.js 75-219): the steps in the order   *)
(* of the code.  The output directory is the set of its files, and whether *)
(* it exists.                                                              *)
(***************************************************************************)
\* pages of the largest site of this part
MaxCfgPages == 2

\* the files build copies from templates/ (build.js 129-149)
ViewerAssets ==
  {"assets/_viewer.css", "assets/_viewer.js", "assets/_pdfium/pdfium.esm.js",
   "assets/_pdfium/pdfium.wasm"}
\* files an output directory may hold before a build
OldOutputFiles == {"old.html", "index.html", "assets/_viewer.css"}
NoDirectory == [exists |-> FALSE, files |-> {}]
Directory(files) == [exists |-> TRUE, files |-> files]
\* the directories of earlier page builds left in the root
StaleTempDirs == {"tssg-1", "tssg-2"}

\* build.js 81-95: every directory of the root whose name starts with the
\* prefix of the sandbox directories is removed
RemoveTempDirs(entries) == entries \ StaleTempDirs

\* a slip: the check for the compiler is skipped
SkipCheckTypst(installed) == "prepare"

\* build.js 112-118
CheckTypst(installed) == IF installed THEN "prepare" ELSE "thrown"

\* build.js 120-149: the output directory is emptied when clean is set, it
\* and assets/ are created, the viewer's files are copied
PrepareOutput(dir, clean) ==
  Directory((IF clean THEN {} ELSE dir.files) \cup ViewerAssets)

\* build.js 157-159
CheckPagesDir(exists) == IF exists THEN "select" ELSE "thrown"

CfgInit ==
  /\ typstInstalled \in BOOLEAN
  /\ pagesDirExists \in BOOLEAN
  /\ cleanOutput \in BOOLEAN
  /\ rootEntries \in {{"src"} \cup stale : stale \in SUBSET StaleTempDirs}
  /\ outputDir \in {NoDirectory} \cup {Directory(files) : files \in SUBSET OldOutputFiles}
  /\ outputAtStart = outputDir
  /\ pagesStarted = 0
  /\ buildStage = "start"

CfgRemoveTempDirs ==
  /\ buildStage = "start"
  /\ rootEntries' = RemoveTempDirs(rootEntries)
  /\ buildStage' = "check"
  /\ UNCHANGED <<typstInstalled, pagesDirExists, cleanOutput, outputDir, outputAtStart,
                 pagesStarted, notCfg>>

CfgCheckTypst ==
  /\ buildStage = "check"
  /\ buildStage' = CheckTypst(typstInstalled)
  /\ UNCHANGED <<typstInstalled, pagesDirExists, cleanOutput, rootEntries, outputDir,
                 outputAtStart, pagesStarted, notCfg>>

CfgPrepareOutput ==
  /\ buildStage = "prepare"
  /\ outputDir' = PrepareOutput(outputDir, cleanOutput)
  /\ buildStage' = "pagesDir"
  /\ UNCHANGED <<typstInstalled, pagesDirExists, cleanOutput, rootEntries, outputAtStart,
                 pagesStarted, notCfg>>

CfgCheckPagesDir ==
  /\ buildStage = "pagesDir"
  /\ buildStage' = CheckPagesDir(pagesDirExists)
  /\ UNCHANGED <<typstInstalled, pagesDirExists, cleanOutput, rootEntries, outputDir,
                 outputAtStart, pagesStarted, notCfg>>

\* build.js 162-219: the pages are selected and built, each in a sandbox
\* directory of the root that its build removes
CfgBuildPages(n) ==
  /\ buildStage = "select"
  /\ pagesStarted' = n
  /\ outputDir' = Directory(outputDir.files \cup {"index.html" : i \in 1..n})
  /\ buildStage' = "built"
  /\ UNCHANGED <<typstInstalled, pagesDirExists, cleanOutput, rootEntries, outputAtStart,
                 notCfg>>

\* build.js 221-242
CfgReturn ==
  /\ buildStage = "built"
  /\ outputDir' = Directory(outputDir.files \cup {".nojekyll"})
  /\ buildStage' = "returned"
  /\ UNCHANGED <<typstInstalled, pagesDirExists, cleanOutput, rootEntries, outputAtStart,
                 pagesStarted, notCfg>>

(***************************************************************************)
(* buildIncremental (build.js 1106-1193) from the changed file to its      *)
(* result.  The changed file is its path from the root, a sequence of      *)
(* segments; the output directory is the set of the paths of its files.    *)
(***************************************************************************)
SRC_DIR == "src"
ASSETS_DIR_NAME == "assets"

\* relativePath.startsWith(assetsRelative + path.sep), build.js 1133
UnderDirectory(path, dir) ==
  /\ Len(path) > Len(dir)
  /\ SubSeq(path, 1, Len(dir)) = dir

\* changedFile.endsWith(".typ"), build.js 1150
EndsWithTyp(path) ==
  path[Len(path)] \in {"x.typ", "u.typ", "p.typ", "index.typ"}

\* build.js 1134-1136: the path of the copy in the output directory
AssetOutputPath(path) ==
  <<ASSETS_DIR_NAME>> \o SubSeq(path, 3, Len(path))

\* build.js 1133, 1150: the three ways of buildIncremental
Dispatch(path) ==
  IF UnderDirectory(path, <<SRC_DIR, ASSETS_DIR_NAME>>) THEN "asset"
  ELSE IF ~EndsWithTyp(path) THEN "ignored"
  ELSE "graph"

\* the files the watcher of the source directory reports
ChangedPaths ==
  {<<SRC_DIR, ASSETS_DIR_NAME, "logo.png">>,
   <<SRC_DIR, ASSETS_DIR_NAME, "img", "a.png">>,
   <<SRC_DIR, ASSETS_DIR_NAME, "x.typ">>,
   <<SRC_DIR, "data", "d.json">>,
   <<SRC_DIR, "notes.txt">>,
   <<SRC_DIR, "assets2", "b.png">>,
   <<SRC_DIR, "utils", "u.typ">>,
   <<SRC_DIR, PAGES_DIR_NAME, "p.typ">>,
   <<SRC_DIR, PAGES_DIR_NAME, "index.css">>}
\* the pages a change may affect
DispatchPages == {<<"index.typ">>, <<"p.typ">>}
\* the output directory before the call
DispatchOutputs ==
  SUBSET {<<"index.html">>, <<ASSETS_DIR_NAME, "logo.png">>, <<"data", "d.json">>}

DispatchInit ==
  /\ changedPath \in ChangedPaths
  /\ changedExists \in BOOLEAN
  /\ incrOutput \in DispatchOutputs
  /\ graphBuilt = FALSE
  /\ pagesRebuilt = {}
  /\ dispatchPc = "called"

\* build.js 1133-1148: the copy of an asset; copyFileSync throws when the
\* file is gone (an unlink event)
DispatchAsset ==
  /\ dispatchPc = "called"
  /\ Dispatch(changedPath) = "asset"
  /\ IF changedExists
       THEN /\ incrOutput' = incrOutput \cup {AssetOutputPath(changedPath)}
            /\ dispatchPc' = "returned"
       ELSE /\ dispatchPc' = "thrown"
            /\ UNCHANGED incrOutput
  /\ UNCHANGED <<changedPath, changedExists, graphBuilt, pagesRebuilt, notDispatch>>

\* build.js 1150-1158
DispatchIgnored ==
  /\ dispatchPc = "called"
  /\ Dispatch(changedPath) = "ignored"
  /\ dispatchPc' = "returned"
  /\ UNCHANGED <<changedPath, changedExists, incrOutput, graphBuilt, pagesRebuilt, notDispatch>>

\* build.js 1160-1173: the tree is read, the graph built and the affected
\* pages found
DispatchGraph ==
  /\ dispatchPc = "called"
  /\ Dispatch(changedPath) = "graph"
  /\ graphBuilt' = TRUE
  /\ dispatchPc' = "pages"
  /\ UNCHANGED <<changedPath, changedExists, incrOutput, pagesRebuilt, notDispatch>>

\* build.js 1178-1192: the affected pages are built one after the other;
\* which pages are affected is decided by the tree and the graph
DispatchBuildPage(p) ==
  /\ dispatchPc = "pages"
  /\ p \notin pagesRebuilt
  /\ pagesRebuilt' = pagesRebuilt \cup {p}
  /\ incrOutput' = incrOutput \cup {BuildPathsOfPage(p, "").htmlPath}
  /\ UNCHANGED <<changedPath, changedExists, graphBuilt, dispatchPc, notDispatch>>

\* build.js 1194-1200
DispatchReturn ==
  /\ dispatchPc = "pages"
  /\ dispatchPc' = "returned"
  /\ UNCHANGED <<changedPath, changedExists, incrOutput, graphBuilt, pagesRebuilt, notDispatch>>

(***************************************************************************)
(* The dev server after its first build (server.js 60-95, 211-244): the    *)
(* watcher calls debouncedRebuild(path) on every change, add and unlink    *)
(* event; debounce keeps one timer for all paths.                          *)
(***************************************************************************)
\* events of one run of the watcher
MaxEvents == 3

DevFiles == {"p.typ", "u.typ", "logo.png"}
NoTimer == "none"

\* rebuilds that have not settled
InProgress == {i \in DOMAIN rebuilds : ~rebuilds[i].settled}

DevInit ==
  /\ debounceTimer = NoTimer
  /\ rebuilds = <<>>
  /\ reported = {}
  /\ rebuildCalls = {}
  /\ eventCount = 0

\* server.js 233-235, 240-243: an event of any of the three kinds for
\* file f; clearTimeout drops the timer of an earlier event, of whatever
\* file, and setTimeout arms one for f
WatchEvent(f) ==
  /\ eventCount < MaxEvents
  /\ eventCount' = eventCount + 1
  /\ reported' = reported \cup {f}
  /\ debounceTimer' = f
  /\ UNCHANGED <<rebuilds, rebuildCalls, notDev>>

\* server.js 242, 60-68: 100 ms after the last event the timer calls
\* fn(changedPath), which calls buildIncremental and awaits it
TimerFires ==
  /\ debounceTimer # NoTimer
  /\ rebuilds' = Append(rebuilds, [file |-> debounceTimer, settled |-> FALSE])
  /\ rebuildCalls' = rebuildCalls \cup {debounceTimer}
  /\ debounceTimer' = NoTimer
  /\ UNCHANGED <<reported, eventCount, notDev>>

\* server.js 68-94: buildIncremental settles, the result is logged
RebuildSettles(i) ==
  /\ i \in InProgress
  /\ rebuilds' = [rebuilds EXCEPT ![i].settled = TRUE]
  /\ UNCHANGED <<debounceTimer, reported, rebuildCalls, eventCount, notDev>>

(***************************************************************************)
(* findCss (build.js 819-911) on trees of index.css files.  Its result is  *)
(* null, one css object or an array of css objects; the mode and the depth *)
(* are those of findLayout, config.layoutInheritance and                   *)
(* config.maxMergeDepth (build.js 507-512).                                *)
(***************************************************************************)
INDEX_CSS == "index.css"
CssSource == Str(<<<<"body">>>>)

IsCssAt(tree, cssPath) ==
  LET r == Lookup(tree, cssPath)
  IN r.found /\ r.node.typeof = "string"

\* build.js 836-854
FindCssNone(pagePath, tree) ==
  LET cssPath == Append(ButLast(pagePath), INDEX_CSS)
  IN IF IsCssAt(tree, cssPath)
     THEN Object(Layout(cssPath, Lookup(tree, cssPath).node, 0))
     ELSE Null

\* build.js 856-882: i runs from the page's directory down to 0
RECURSIVE FindCssFallback(_, _, _)
FindCssFallback(directories, i, tree) ==
  LET searchPath == Append(SubSeq(directories, 1, i), INDEX_CSS)
  IN IF IsCssAt(tree, searchPath)
     THEN Object(Layout(searchPath, Lookup(tree, searchPath).node, Len(directories) - i))
     ELSE IF i = 0 THEN Null
     ELSE FindCssFallback(directories, i - 1, tree)

Min(x, y) == IF x <= y THEN x ELSE y

\* build.js 884-908: i runs from 0, the root of the pages, up to
\* Math.min(directories.length, maxMergeDepth)
RECURSIVE FindCssMerge(_, _, _, _, _)
FindCssMerge(directories, i, cssFiles, tree, maxDepth) ==
  IF i > Min(Len(directories), maxDepth) THEN Array(cssFiles)
  ELSE LET searchPath == Append(SubSeq(directories, 1, i), INDEX_CSS)
           collected == IF IsCssAt(tree, searchPath)
                        THEN Append(cssFiles, Layout(searchPath, Lookup(tree, searchPath).node, i))
                        ELSE cssFiles
       IN FindCssMerge(directories, i + 1, collected, tree, maxDepth)

findCss(pagePath, tree, mode, maxDepth) ==
  IF pagePath = <<>> THEN (IF mode = "merge" THEN Array(<<>>) ELSE Null)
  ELSE IF mode = "none" THEN FindCssNone(pagePath, tree)
  ELSE IF mode = "fallback" THEN FindCssFallback(ButLast(pagePath), Len(pagePath) - 1, tree)
  ELSE FindCssMerge(ButLast(pagePath), 0, <<>>, tree, maxDepth)

CssPaths == {Append(Dir(k), INDEX_CSS) : k \in 0..MaxDirDepth}
CssTrees == UNION {[D -> {CssSource}] : D \in SUBSET CssPaths}

CssInit ==
  /\ pagesTree \in CssTrees
  /\ pagePathArray \in PagePaths \cup {<<>>}
  /\ layoutInheritance \in InheritanceModes
  /\ maxMergeDepth \in 0..MaxMergeDepthTried
  /\ layoutResult = Null
  /\ layoutPc = "idle"
  /\ cssResult = Null
  /\ cssPc = "call"

CallFindCss ==
  /\ cssPc = "call"
  /\ cssResult' = findCss(pagePathArray, pagesTree, layoutInheritance, maxMergeDepth)
  /\ cssPc' = "done"
  /\ UNCHANGED <<layoutVars, notCss>>

Next ==
  \/ FullBuild
  \/ \E file \in SourceFiles : EditFile(file)
  \/ \E file \in SourceFiles : DeleteFile(file)
  \/ IncrBuildGraph
  \/ IncrFindAffected
  \/ IncrRebuild

Init == BuildInit /\ ScanIdle
        /\ importPath = <<>> /\ fromPathArray = <<>> /\ toPathArray = <<>>
        /\ newPath = <<>> /\ rewritePc = "idle"
        /\ ComposeIdle /\ PagesIdle /\ LateIdle

Spec == Init /\ [][Next]_vars

(***************************************************************************)
(* isLayoutFile applied to every source of up to MaxLines lines.           *)
(***************************************************************************)
RewriteIdle ==
  /\ importPath = <<>> /\ fromPathArray = <<>> /\ toPathArray = <<>>
  /\ newPath = <<>> /\ rewritePc = "idle"

GraphIdle ==
  /\ depGraph = <<>> /\ changedFile = <<>> /\ toCheck = <<>> /\ checked = {}
  /\ affectedFiles = <<>> /\ affectedPages = <<>> /\ graphPc = "idle"

InitScan == ScanInit /\ LayoutIdle /\ RewriteIdle /\ GraphIdle /\ BuildIdle /\ ComposeIdle /\ PagesIdle
  /\ LateIdle

NextScan == CallIsLayoutFile

SpecScan == InitScan /\ [][NextScan]_vars

(***************************************************************************)
(* findLayout applied to every tree of index.typ files over a chain of     *)
(* MaxDirDepth directories, every page path, mode and merge depth.         *)
(***************************************************************************)
InitLayout == LayoutInit /\ ScanIdle /\ RewriteIdle /\ GraphIdle /\ BuildIdle /\ ComposeIdle /\ PagesIdle
  /\ LateIdle

NextLayout == CallFindLayout

SpecLayout == InitLayout /\ [][NextLayout]_vars

(***************************************************************************)
(* rewriteImports applied to one import directive of a layout or a page    *)
(* that is composed into the document of a page, which is compiled in the  *)
(* sandbox of that page.                                                   *)
(***************************************************************************)
\* longest import path tried, in segments
MaxImportLen == 4

ImportSegments == {".", "..", "a", "util", "u.typ"}
ImportPathsTried ==
  {p \in SeqsUpTo(ImportSegments, MaxImportLen) : IsRelativeImport(p)}
  \cup {<<"@preview", "pkg">>, <<"u.typ">>}

\* composeDocument rewrites a layout for a page in or below the layout's
\* directory, and a page body for the page itself (build.js 989-998)
RewritePairs ==
  {<<Append(Dir(jk[1]), INDEX_TYP), Append(Dir(jk[2]), "p.typ")>> :
     jk \in {x \in (0..MaxDirDepth) \X (0..MaxDirDepth) : x[1] <= x[2]}}
  \cup {<<Append(Dir(k), "p.typ"), Append(Dir(k), "p.typ")>> : k \in 0..MaxDirDepth}

\* the source directory the sandbox is a copy of
RewriteSourceDir ==
  [k \in {<<PAGES_DIR_NAME>> \o Append(Dir(j), name) :
            j \in 0..MaxDirDepth, name \in {INDEX_TYP, "p.typ", "u.typ"}}
          \cup {<<"util", "u.typ">>, <<"u.typ">>} |-> PageSource]

RewriteInit ==
  /\ importPath \in ImportPathsTried
  /\ \E pair \in RewritePairs : fromPathArray = pair[1] /\ toPathArray = pair[2]
  /\ newPath = <<>>
  /\ rewritePc = "call"
  /\ srcFiles = RewriteSourceDir /\ lastBuilt = <<>> /\ buildPc = "idle"

CallRewriteImports ==
  /\ rewritePc = "call"
  /\ newPath' = RewriteImport(importPath, fromPathArray, toPathArray)
  /\ rewritePc' = "done"
  /\ UNCHANGED <<importPath, fromPathArray, toPathArray,
                 scanVars, layoutVars, graphVars, buildVars>>
  /\ UNCHANGED <<composeVars, pagesVars, lateVars>>

InitRewrite == RewriteInit /\ ScanIdle /\ LayoutIdle /\ GraphIdle /\ ComposeIdle /\ PagesIdle
  /\ LateIdle

NextRewrite == CallRewriteImports

SpecRewrite == InitRewrite /\ [][NextRewrite]_vars

(***************************************************************************)
(* findAffectedPages on every dependency graph of up to MaxEdges edges     *)
(* over the keys of two pages, an index.typ, a file outside pages/ and a   *)
(* file that does not exist.                                               *)
(***************************************************************************)
MaxEdges == 3

GraphPage0 == <<"pages", "p.typ">>
GraphPage1 == <<"pages", "a", "p.typ">>
GraphIndex == <<"pages", "index.typ">>
GraphUtil == <<"util", "u.typ">>
GraphGone == <<"pages", "gone.typ">>
GraphNodes == {GraphPage0, GraphPage1, GraphIndex, GraphUtil}
GraphKeys == GraphNodes \cup {GraphGone}

GraphTrees ==
  {[p \in {<<"p.typ">>, <<"a", "p.typ">>, <<INDEX_TYP>>} |->
      IF p = <<INDEX_TYP>> THEN c ELSE PageSource] : c \in {LayoutSource, SnippetSource}}

EdgeCount(graph) ==
  LET RECURSIVE Sum(_)
      Sum(S) == IF S = {} THEN 0
                ELSE LET k == CHOOSE k \in S : TRUE
                     IN Cardinality(graph[k]) + Sum(S \ {k})
  IN Sum(DOMAIN graph)

GraphInit ==
  /\ depGraph = [k \in GraphNodes |-> {}]
  /\ pagesTree \in GraphTrees
  /\ changedFile = <<>> /\ toCheck = <<>> /\ checked = {}
  /\ affectedFiles = <<>> /\ affectedPages = <<>>
  /\ graphPc = "setup"
  /\ pagePathArray = <<>> /\ layoutInheritance = "fallback" /\ maxMergeDepth = 0
  /\ layoutResult = Null /\ layoutPc = "idle"

\* what findAffectedPages leaves alone
graphFrame == <<scanVars, rewriteVars, buildVars, pagesTree, pagePathArray,
                layoutInheritance, maxMergeDepth, layoutResult, layoutPc>>

\* the graph handed to findAffectedPages gets one more edge
AddDep(file, dep) ==
  /\ graphPc = "setup"
  /\ EdgeCount(depGraph) < MaxEdges
  /\ dep \notin depGraph[file]
  /\ depGraph' = [depGraph EXCEPT ![file] = @ \cup {dep}]
  /\ UNCHANGED <<changedFile, toCheck, checked, affectedFiles, affectedPages, graphPc,
                 graphFrame>>
  /\ UNCHANGED <<composeVars, pagesVars, lateVars>>

\* build.js 309-311
CallFindAffectedPages(changed) ==
  /\ graphPc = "setup"
  /\ changedFile' = changed
  /\ toCheck' = <<changed>>
  /\ checked' = {}
  /\ affectedFiles' = <<>>
  /\ graphPc' = "loop"
  /\ UNCHANGED <<depGraph, affectedPages, graphFrame>>
  /\ UNCHANGED <<composeVars, pagesVars, lateVars>>

\* build.js 313-324, one iteration
AffectedStep ==
  /\ graphPc = "loop"
  /\ toCheck # <<>>
  /\ LET st == AffectedIter([toCheck |-> toCheck, checked |-> checked,
                             affectedFiles |-> affectedFiles], depGraph)
     IN /\ toCheck' = st.toCheck
        /\ checked' = st.checked
        /\ affectedFiles' = st.affectedFiles
  /\ UNCHANGED <<depGraph, changedFile, affectedPages, graphPc, graphFrame>>
  /\ UNCHANGED <<composeVars, pagesVars, lateVars>>

\* build.js 326-355
AffectedReturn ==
  /\ graphPc = "loop"
  /\ toCheck = <<>>
  /\ affectedPages' = AffectedFilter(changedFile, affectedFiles, pagesTree)
  /\ graphPc' = "done"
  /\ UNCHANGED <<depGraph, changedFile, toCheck, checked, affectedFiles, graphFrame>>
  /\ UNCHANGED <<composeVars, pagesVars, lateVars>>

InitGraph == GraphInit /\ ScanIdle /\ RewriteIdle /\ BuildIdle /\ ComposeIdle /\ PagesIdle
  /\ LateIdle

NextGraph ==
  \/ \E file \in GraphNodes, dep \in GraphKeys : AddDep(file, dep)
  \/ \E changed \in GraphKeys : CallFindAffectedPages(changed)
  \/ AffectedStep
  \/ AffectedReturn

SpecGraph == InitGraph /\ [][NextGraph]_vars

\* the loop and the return run to completion once the function is called
FairSpecGraph ==
  SpecGraph /\ WF_vars(AffectedStep) /\ WF_vars(AffectedReturn)

(***************************************************************************)
(* composeDocument applied to what findLayout returns for a page below     *)
(* a/b/, for every choice of layouts at a/b/, a/ and the pages root.       *)
(***************************************************************************)
InitCompose == ComposeInit /\ ScanIdle /\ RewriteIdle /\ GraphIdle /\ BuildIdle /\ PagesIdle
  /\ LateIdle

NextCompose ==
  \/ CallFindLayout
  \/ CallComposeDocument

SpecCompose == InitCompose /\ [][NextCompose]_vars

(***************************************************************************)
(* A build of up to MaxPages pages, and a build of one page with sidebar,  *)
(* table of contents and file system failures.                             *)
(***************************************************************************)
PageEvents(p) ==
  \/ TimeoutFires(p)
  \/ \E code \in {0, 1} : ProcClose(p, code)
  \/ ProcError(p)

InitPages == PagesInit /\ ScanIdle /\ LayoutIdle /\ RewriteIdle /\ GraphIdle /\ BuildIdle /\ ComposeIdle
  /\ LateIdle

NextPages ==
  \/ LaunchBatch
  \/ \E p \in 1..MaxPages : TimeoutFires(p)
  \/ \E p \in 1..MaxPages, code \in {0, 1} : ProcClose(p, code)
  \/ \E p \in 1..MaxPages : ProcError(p)
  \/ ReturnBuild

SpecPages == InitPages /\ [][NextPages]_vars

\* a compiler process closes by itself or its timer fires, a killed process
\* closes, and the loop and the return of the build run on
FairSpecPages ==
  /\ SpecPages
  /\ \A p \in 1..MaxPages : WF_vars(PageEvents(p))
  /\ WF_vars(LaunchBatch) /\ WF_vars(ReturnBuild)

InitOnePage == OnePageInit /\ ScanIdle /\ LayoutIdle /\ RewriteIdle /\ GraphIdle /\ BuildIdle /\ ComposeIdle
  /\ LateIdle

SpecOnePage == InitOnePage /\ [][NextPages]_vars

(***************************************************************************)
(* pathToRoute and routeToBuildPath applied to every path of RoutePaths.   *)
(***************************************************************************)
InitRoute ==
  /\ RouteInit /\ OutIdle /\ CfgIdle /\ DispatchIdle /\ DevIdle /\ CssIdle
  /\ ScanIdle /\ LayoutIdle /\ RewriteIdle /\ GraphIdle /\ BuildIdle /\ ComposeIdle /\ PagesIdle

NextRoute ==
  \/ CallPathToRoute
  \/ CallRouteToBuildPath

SpecRoute == InitRoute /\ [][NextRoute]_vars

(***************************************************************************)
(* Two full builds of one pages tree.                                      *)
(***************************************************************************)
InitOutput ==
  /\ OutInit /\ RouteIdle /\ CfgIdle /\ DispatchIdle /\ DevIdle /\ CssIdle
  /\ ScanIdle /\ LayoutIdle /\ RewriteIdle /\ GraphIdle /\ BuildIdle /\ ComposeIdle /\ PagesIdle

NextOutput ==
  \/ OutLaunchBatch
  \/ \E p \in OutLeaves : OutCompiled(p)
  \/ \E p \in OutLeaves : OutWriteViewer(p)
  \/ OutReturn
  \/ OutBuildAgain

SpecOutput == InitOutput /\ [][NextOutput]_vars

(***************************************************************************)
(* build on every configuration of CfgInit.                                *)
(***************************************************************************)
InitConfig ==
  /\ CfgInit /\ RouteIdle /\ OutIdle /\ DispatchIdle /\ DevIdle /\ CssIdle
  /\ ScanIdle /\ LayoutIdle /\ RewriteIdle /\ GraphIdle /\ BuildIdle /\ ComposeIdle /\ PagesIdle

NextConfig ==
  \/ CfgRemoveTempDirs
  \/ CfgCheckTypst
  \/ CfgPrepareOutput
  \/ CfgCheckPagesDir
  \/ \E n \in 0..MaxCfgPages : CfgBuildPages(n)
  \/ CfgReturn

SpecConfig == InitConfig /\ [][NextConfig]_vars

(***************************************************************************)
(* buildIncremental on every changed file of ChangedPaths.                 *)
(***************************************************************************)
InitDispatch ==
  /\ DispatchInit /\ RouteIdle /\ OutIdle /\ CfgIdle /\ DevIdle /\ CssIdle
  /\ ScanIdle /\ LayoutIdle /\ RewriteIdle /\ GraphIdle /\ BuildIdle /\ ComposeIdle /\ PagesIdle

NextDispatch ==
  \/ DispatchAsset
  \/ DispatchIgnored
  \/ DispatchGraph
  \/ \E p \in DispatchPages : DispatchBuildPage(p)
  \/ DispatchReturn

SpecDispatch == InitDispatch /\ [][NextDispatch]_vars

(***************************************************************************)
(* The dev server on every sequence of at most MaxEvents events.  A timer  *)
(* that is armed fires and a rebuild that runs settles: the fair           *)
(* specification says so.                                                  *)
(***************************************************************************)
InitDev ==
  /\ DevInit /\ RouteIdle /\ OutIdle /\ CfgIdle /\ DispatchIdle /\ CssIdle
  /\ ScanIdle /\ LayoutIdle /\ RewriteIdle /\ GraphIdle /\ BuildIdle /\ ComposeIdle /\ PagesIdle

NextDev ==
  \/ \E f \in DevFiles : WatchEvent(f)
  \/ TimerFires
  \/ \E i \in 1..MaxEvents : RebuildSettles(i)

SpecDev == InitDev /\ [][NextDev]_vars

FairSpecDev ==
  /\ SpecDev
  /\ WF_vars(TimerFires)
  /\ \A i \in 1..MaxEvents : WF_vars(RebuildSettles(i))

(***************************************************************************)
(* findCss on every tree of CssTrees, page, mode and depth.                *)
(***************************************************************************)
InitCss ==
  /\ CssInit /\ RouteIdle /\ OutIdle /\ CfgIdle /\ DispatchIdle /\ DevIdle
  /\ ScanIdle /\ RewriteIdle /\ GraphIdle /\ BuildIdle /\ ComposeIdle /\ PagesIdle

NextCss == CallFindCss

SpecCss == InitCss /\ [][NextCss]_vars

(***************************************************************************)
(* Claims.                                                                 *)
(***************************************************************************)
IsFenceLine(line) == startsWith(trimStart(line), FENCE)
IsLineComment(line) == startsWith(trimStart(line), COMMENT)
InsideFence(lines, i) ==
  IsFenceLine(lines[i]) \/ Cardinality({j \in 1..(i - 1) : IsFenceLine(lines[j])}) % 2 = 1
LayoutLines(lines) ==
  {i \in 1..Len(lines) :
     TestLayoutPattern(lines[i]) /\ ~InsideFence(lines, i) /\ ~IsLineComment(lines[i])}

\* C8: isLayoutFile returns true exactly when some line that is outside every
\* fenced code block (a fence opens or closes at each line whose first
\* non-blank text is three backticks, the fence lines included in the block)
\* and is not a line comment contains the layout pattern; a Buffer is never
\* a layout.
C8_LayoutIffPatternOutsideFences ==
  scanPc = "done" =>
    (isLayoutResult <=>
       (typstSource.typeof = "string" /\ LayoutLines(typstSource.lines) # {}))

\* C8's case: the pattern occurs, but only inside a fenced block or on a
\* line comment, and the source is not classified as a layout.
C8_Witness ==
  /\ scanPc = "done"
  /\ ~isLayoutResult
  /\ \E i \in 1..Len(typstSource.lines) :
       /\ TestLayoutPattern(typstSource.lines[i])
       /\ ~IsFenceLine(typstSource.lines[i])
       /\ InsideFence(typstSource.lines, i)
  /\ \E i \in 1..Len(typstSource.lines) :
       TestLayoutPattern(typstSource.lines[i]) /\ IsLineComment(typstSource.lines[i])

\* the page's own directory is depth 0, its parent depth 1, up to the pages root
PageDir == ButLast(pagePathArray)
AncestorIndex(d) == Append(SubSeq(PageDir, 1, Len(PageDir) - d), INDEX_TYP)
HasLayoutAt(d) ==
  /\ AncestorIndex(d) \in DOMAIN pagesTree
  /\ isLayoutFile(pagesTree[AncestorIndex(d)])
LayoutDepths == {d \in 0..Len(PageDir) : HasLayoutAt(d)}
LayoutOfDepth(d) ==
  [pathArray |-> AncestorIndex(d), source |-> pagesTree[AncestorIndex(d)], level |-> d]
Minimum(S) == CHOOSE x \in S : \A y \in S : x <= y

\* C5: in fallback mode findLayout returns the layout of the nearest
\* directory on the walk from the page's directory up to the pages root whose
\* index.typ defines a layout, with level its depth, and null exactly when
\* there is none; an index.typ that defines no layout does not end the walk.
C5_FallbackReturnsNearestLayout ==
  (layoutPc = "done" /\ layoutInheritance = "fallback" /\ pagePathArray # <<>>) =>
    IF LayoutDepths = {} THEN layoutResult = Null
    ELSE layoutResult = Object(LayoutOfDepth(Minimum(LayoutDepths)))

\* C5's case: the page's own directory has an index.typ that defines no
\* layout, and the layout of an ancestor is returned.
C5_Witness ==
  /\ layoutPc = "done" /\ layoutInheritance = "fallback" /\ pagePathArray # <<>>
  /\ AncestorIndex(0) \in DOMAIN pagesTree
  /\ ~HasLayoutAt(0)
  /\ layoutResult.kind = "object"
  /\ layoutResult.list[1].level >= 1

\* C6: in none mode findLayout returns the layout at index.typ of the page's
\* own directory when that file defines a layout and null otherwise, whatever
\* the ancestors hold.
C6_NoneLooksAtOwnDirectoryOnly ==
  (layoutPc = "done" /\ layoutInheritance = "none" /\ pagePathArray # <<>>) =>
    IF HasLayoutAt(0) THEN layoutResult = Object(LayoutOfDepth(0))
    ELSE layoutResult = Null

\* C6's case: an ancestor has a layout, the page's own directory has none,
\* and null is returned.
C6_Witness ==
  /\ layoutPc = "done" /\ layoutInheritance = "none" /\ pagePathArray # <<>>
  /\ ~HasLayoutAt(0)
  /\ \E d \in 1..Len(PageDir) : HasLayoutAt(d)
  /\ layoutResult = Null

\* C7 (as claimed): in merge mode findLayout returns the layouts at depths 0
\* through maxMergeDepth inclusive and no other, nearest first with strictly
\* increasing depth, [] when there is none.
C7_MergeReturnsDepthsUpToMaxInclusive ==
  (layoutPc = "done" /\ layoutInheritance = "merge" /\ pagePathArray # <<>>) =>
    LET wanted == {d \in LayoutDepths : d <= maxMergeDepth}
        got == layoutResult.list
    IN /\ layoutResult.kind = "array"
       /\ {got[i].level : i \in 1..Len(got)} = wanted
       /\ \A i \in 1..Len(got) : got[i] = LayoutOfDepth(got[i].level)
       /\ \A i, j \in 1..Len(got) : i < j => got[i].level < got[j].level

\* the file an import of the original source designates, resolved from the
\* directory of fromPath inside the source directory
LogicalTarget == normalize(<<PAGES_DIR_NAME>> \o ButLast(fromPathArray) \o importPath)
\* the file the rewritten import designates, resolved from the directory of
\* toPath inside the sandbox
SandboxTarget == normalize(ButLast(toPathArray) \o newPath)
LeadingUps(path) ==
  Cardinality({i \in 1..Len(path) : \A j \in 1..i : path[j] = ".."})

\* C9 (as claimed): a relative import whose target is a file of the source
\* directory is rewritten to a path that, resolved from the directory of
\* toPath in the sandbox, designates the sandbox copy of that same file.
C9_RewrittenImportDesignatesSameFile ==
  (/\ rewritePc = "done"
   /\ IsRelativeImport(importPath)
   /\ LogicalTarget \in DOMAIN srcFiles) =>
    /\ SandboxTarget \in DOMAIN setupTempDirectory(srcFiles)
    /\ setupTempDirectory(srcFiles)[SandboxTarget] = LogicalTarget

\* C10 (as claimed): an import whose leading ".." segments climb above the
\* source root from the directory of fromPath, and an import that is not
\* relative, come out of rewriteImports unchanged.
C10_ClimbingImportLeftUnchanged ==
  (/\ rewritePc = "done"
   /\ \/ ~IsRelativeImport(importPath)
      \/ LeadingUps(importPath) > Len(ButLast(fromPathArray)) + 1) =>
    newPath = importPath

\* the keys reachable from a set of keys through one or more dependency edges
RECURSIVE ReachableFrom(_, _, _)
ReachableFrom(graph, frontier, seen) ==
  LET next == UNION {graph[k] : k \in frontier \cap DOMAIN graph}
  IN IF next \subseteq seen THEN seen
     ELSE ReachableFrom(graph, next \ seen, seen \cup next)
DependsOn(graph, key, target) == target \in ReachableFrom(graph, {key}, {})
\* the pages of a tree: its string leaves that are not an index.typ layout
TreePages(tree) ==
  {p \in DOMAIN tree :
     tree[p].typeof = "string" /\ ~(Last(p) = INDEX_TYP /\ isLayoutFile(tree[p]))}
PageKey(p) == <<PAGES_DIR_NAME>> \o p
ReturnedPaths == {affectedPages[i].pathArray : i \in 1..Len(affectedPages)}

\* C2: findAffectedPages returns exactly the pages of the tree whose key is
\* the changed file or reaches the changed file through one or more
\* dependency edges (whatever the intermediate keys are), each paired with
\* its content in the tree.
C2_ReturnsExactlyDependentPages ==
  graphPc = "done" =>
    /\ ReturnedPaths =
         {p \in TreePages(pagesTree) :
            PageKey(p) = changedFile \/ DependsOn(depGraph, PageKey(p), changedFile)}
    /\ \A i \in 1..Len(affectedPages) :
         affectedPages[i].content = pagesTree[affectedPages[i].pathArray]

\* C2's case: X references Y, Y references Z, X does not reference Z, Y is
\* not a page, Z does not exist, and a change to Z returns page X.
C2_Witness ==
  /\ graphPc = "done"
  /\ changedFile = GraphGone
  /\ depGraph[GraphPage0] = {GraphUtil}
  /\ depGraph[GraphUtil] = {GraphGone}
  /\ <<"p.typ">> \in ReturnedPaths

\* C3: once called, findAffectedPages returns, on every graph (cycles and
\* self-loops included), and no page appears twice in the returned list.
C3_TerminatesEachPageOnce ==
  /\ (graphPc = "loop") ~> (graphPc = "done")
  /\ [](graphPc = "done" =>
          \A i, j \in 1..Len(affectedPages) :
            affectedPages[i].pathArray = affectedPages[j].pathArray => i = j)

\* C3's case: X depends on Y and Y on X, with a self-loop on X; a change to
\* X returns X and Y.
C3_Witness ==
  /\ graphPc = "done"
  /\ changedFile = GraphPage0
  /\ depGraph[GraphPage0] = {GraphPage0, GraphPage1}
  /\ depGraph[GraphPage1] = {GraphPage0}
  /\ ReturnedPaths = {<<"p.typ">>, <<"a", "p.typ">>}
  /\ Len(affectedPages) = 2

GraphBuilt == buildPc \in {"graph", "affected", "done"}
LayoutsOf(p) == findLayout(p, pagesTree, layoutInheritance, maxMergeDepth).list

\* C4: in the graph buildCompleteDependencyGraph returns, every page of the
\* pages tree has a key, and the dependencies of that key include, for each
\* layout findLayout returns for the page, the key under which the import
\* scan records that layout's file.
C4_PagesDependOnTheirLayouts ==
  GraphBuilt =>
    \A p \in PagesOf(pagesTree) :
      /\ PageKey(p) \in DOMAIN depGraph
      /\ \A i \in 1..Len(LayoutsOf(p)) :
           \E key \in DOMAIN walkTypstDirectory(srcFiles) :
             /\ key = PageKey(LayoutsOf(p)[i].pathArray)
             /\ srcFiles[key] = LayoutsOf(p)[i].source
             /\ key \in depGraph[PageKey(p)]

\* C4's case: merge mode gives a page two layouts, and a page the import
\* scan skips is in the pages tree.
C4_Witness ==
  /\ GraphBuilt
  /\ layoutInheritance = "merge"
  /\ \E p \in PagesOf(pagesTree) : Len(LayoutsOf(p)) = 2
  /\ \E p \in PagesOf(pagesTree) : PageKey(p) \notin DOMAIN walkTypstDirectory(srcFiles)

\* C1 (as claimed): after buildIncremental, every page's output is the one
\* a full build of the new sources produces.
C1_IncrementalEqualsFullBuild ==
  buildPc = "done" =>
    \A p \in DOMAIN BuildAll(srcFiles, layoutInheritance, maxMergeDepth) :
      /\ p \in DOMAIN lastBuilt
      /\ lastBuilt[p] = BuildAll(srcFiles, layoutInheritance, maxMergeDepth)[p]

(***************************************************************************)
(* composeDocument in merge mode.                                          *)
(***************************************************************************)
\* composeDocument has run on two or more layouts in merge mode
MergeCase ==
  /\ composePc = "done"
  /\ layoutInheritance = "merge"
  /\ layoutResult.kind = "array"
  /\ Len(layoutResult.list) >= 2
StatementKinds == {"text", "page", "heading"}
\* the first token of a line that is not white space, WS for a blank line
FirstToken(line) ==
  LET notSpace(tok) == tok # WS
  IN IF SelectSeq(line, notSpace) = <<>> THEN WS ELSE Head(SelectSeq(line, notSpace))
HasToken(line, tok) == \E i \in 1..Len(line) : line[i] = tok
\* line j of the layout lies in the braces of its layout function and
\* starts with the set statement s
SetsAtLine(layout, j, s) ==
  LET lines == layout.source.lines
  IN /\ j \in 1..Len(lines)
     /\ s.t = "set"
     /\ FirstToken(lines[j]) = s
     /\ \E i \in 1..(j - 1) : HasToken(lines[i], LETLAYOUT) /\ HasToken(lines[i], OPEN)
     /\ \E c \in (j + 1)..Len(lines) : HasToken(lines[c], CLOSE)
SetsStatement(layout, s) == \E j \in 1..Len(layout.source.lines) : SetsAtLine(layout, j, s)
SetsKind(layout, kind) ==
  \E j \in 1..Len(layout.source.lines) :
    FirstToken(layout.source.lines[j]).t = "set"
    /\ FirstToken(layout.source.lines[j]).arg[1] = kind
    /\ SetsAtLine(layout, j, FirstToken(layout.source.lines[j]))
\* the layouts of layoutResult that set a kind, 1 the nearest
Setters(kind) ==
  {n \in 1..Len(layoutResult.list) : SetsKind(layoutResult.list[n], kind)}
Maximum(S) == CHOOSE x \in S : \A y \in S : y <= x

\* C11: in merge mode with two or more layouts the merged set statements
\* hold at most one statement of a kind, and the statement of a kind is the
\* one of the nearest layout among those that set that kind.
C11_OnePerKindFromNearestSetter ==
  MergeCase =>
    /\ \A i, j \in 1..Len(mergedSetStatements) :
         mergedSetStatements[i].arg[1] = mergedSetStatements[j].arg[1] => i = j
    /\ \A i \in 1..Len(mergedSetStatements) :
         /\ Setters(mergedSetStatements[i].arg[1]) # {}
         /\ SetsStatement(layoutResult.list[Minimum(Setters(mergedSetStatements[i].arg[1]))],
                          mergedSetStatements[i])
    /\ \A kind \in StatementKinds :
         Setters(kind) # {} =>
           \E i \in 1..Len(mergedSetStatements) : mergedSetStatements[i].arg[1] = kind

\* two layouts set a kind and the merged list holds a statement of it
C11_Witness ==
  /\ MergeCase
  /\ \E i \in 1..Len(mergedSetStatements) :
       Cardinality(Setters(mergedSetStatements[i].arg[1])) >= 2

\* C12: in merge mode with two or more layouts every merged set statement
\* comes from a layout other than the nearest; the set statements of the
\* nearest layout are not extracted into the merged list.
C12_MergedFromFartherLayoutsOnly ==
  MergeCase =>
    \A i \in 1..Len(mergedSetStatements) :
      \E n \in 2..Len(layoutResult.list) :
        SetsStatement(layoutResult.list[n], mergedSetStatements[i])

\* where a kind is first seen on the pass from the farthest layout to the
\* nearest: the farthest layout that sets it, and the first line that does
FirstSeenLayout(kind) == Maximum(Setters(kind))
FirstSeenLine(kind) ==
  LET layout == layoutResult.list[FirstSeenLayout(kind)]
  IN Minimum({j \in 1..Len(layout.source.lines) :
                FirstToken(layout.source.lines[j]).t = "set"
                /\ FirstToken(layout.source.lines[j]).arg[1] = kind
                /\ SetsAtLine(layout, j, FirstToken(layout.source.lines[j]))})
SeenBefore(kind1, kind2) ==
  \/ FirstSeenLayout(kind1) > FirstSeenLayout(kind2)
  \/ /\ FirstSeenLayout(kind1) = FirstSeenLayout(kind2)
     /\ FirstSeenLine(kind1) < FirstSeenLine(kind2)

\* C13: the merged set statements are in the order in which their kinds
\* are first seen on the pass from the farthest layout to the nearest; a
\* statement that overrides a farther one takes its place.
C13_FirstSeenOrder ==
  MergeCase =>
    \A i, j \in 1..Len(mergedSetStatements) :
      i < j => SeenBefore(mergedSetStatements[i].arg[1], mergedSetStatements[j].arg[1])

\* a nearer layout overrides the first of two kinds: its statement stands
\* before a statement of a farther layout
C13_Witness ==
  /\ MergeCase
  /\ Len(mergedSetStatements) >= 2
  /\ Cardinality(Setters(mergedSetStatements[1].arg[1])) >= 2
  /\ Minimum(Setters(mergedSetStatements[1].arg[1]))
       < Minimum(Setters(mergedSetStatements[2].arg[1]))

LetLayoutLines(lines) == Cardinality({i \in 1..Len(lines) : HasToken(lines[i], LETLAYOUT)})

\* C14: in merge mode with two or more layouts the document is the merged
\* set statements, the whole rewritten source of the nearest layout, and
\* the layout invocation around the rewritten page body; the source of a
\* farther layout is not in it.
C14_MergedThenNearestSourceThenBody ==
  MergeCase =>
    LET statements == StatementLines(mergedSetStatements)
        nearest == rewriteImports(layoutResult.list[1].source,
                                  layoutResult.list[1].pathArray, pagePathArray).lines
        body == rewriteImports(pageBody, pagePathArray, pagePathArray).lines
        k == Len(statements)
        n == Len(nearest)
    IN /\ Len(document) = k + n + Len(body) + 4
       /\ SubSeq(document, 1, k) = statements
       /\ document[k + 1] = <<>>
       /\ SubSeq(document, k + 2, k + n + 1) = nearest
       /\ document[k + n + 2] = <<>>
       /\ document[k + n + 3] = <<LAYOUTCALL>>
       /\ SubSeq(document, k + n + 4, k + n + Len(body) + 3) = body
       /\ document[Len(document)] = <<BRACKET>>
       /\ LetLayoutLines(document) = LetLayoutLines(nearest)

\* a farther layout whose source is not that of the nearest has given the
\* document a statement
C14_Witness ==
  /\ MergeCase
  /\ layoutResult.list[2].source # layoutResult.list[1].source
  /\ \E i \in 1..Len(mergedSetStatements) :
       Minimum(Setters(mergedSetStatements[i].arg[1])) >= 2
  /\ document # <<>>

\* C15: merge mode with exactly one layout gives the document of fallback
\* mode with that layout, and in every mode an absent layout result (null
\* or an empty list) gives the minimal shell around the page body as it is.
C15_OneLayoutAsFallbackAbsentAsMinimal ==
  composePc = "done" =>
    /\ (layoutInheritance = "merge" /\ layoutResult.kind = "array"
        /\ Len(layoutResult.list) = 1) =>
         /\ document = composeDocument(Object(layoutResult.list[1]), pageBody,
                                       pagePathArray, "fallback").document
         /\ document = rewriteImports(layoutResult.list[1].source,
                                       layoutResult.list[1].pathArray, pagePathArray).lines
                       \o << <<>>, <<LAYOUTCALL>> >>
                       \o rewriteImports(pageBody, pagePathArray, pagePathArray).lines
                       \o <<<<BRACKET>>>>
    /\ layoutResult.list = <<>> =>
         /\ document = generateMinimalDocument(pageBody)
         /\ \A i \in 1..Len(pageBody.lines) :
              \E j \in 1..Len(document) :
                SelectSeq(document[j], LAMBDA tok : tok # WS) = pageBody.lines[i]

\* merge mode has found one layout, which sets a kind
C15_Witness ==
  /\ composePc = "done"
  /\ layoutInheritance = "merge"
  /\ layoutResult.kind = "array"
  /\ Len(layoutResult.list) = 1
  /\ \E kind \in StatementKinds : SetsKind(layoutResult.list[1], kind)
  /\ document # <<>>

(***************************************************************************)
(* The page builds of a build.                                             *)
(***************************************************************************)
SelectedPages == DOMAIN pagePhase
FailedPages == {p \in SelectedPages : pagePhase[p] = "failed"}
BuiltPages == {p \in SelectedPages : pagePhase[p] = "built"}
\* the pages whose buildPage call has started and has not settled
InFlight == {p \in SelectedPages : pagePhase[p] \in {"page", "sidebar", "toc"}}
ErrorsOf(p) == {i \in 1..Len(errors) : errors[i].page = p}

\* C16: in a full and in an incremental build no page is attempted twice,
\* and when the build returns every selected page has been attempted once
\* and has settled, errors holds one entry for each failed page and none
\* for another, pageCount is the number of pages built, pageCount plus the
\* number of errors is the number of selected pages, and success is true
\* exactly when errors is empty.
C16_EveryPageAttemptedOnceAndCounted ==
  /\ \A p \in SelectedPages : attempts[p] <= 1
  /\ buildResult.returned =>
       /\ \A p \in SelectedPages : attempts[p] = 1 /\ Settled(pagePhase[p])
       /\ \A p \in FailedPages : Cardinality(ErrorsOf(p)) = 1
       /\ \A p \in BuiltPages : ErrorsOf(p) = {}
       /\ buildResult.errors = errors
       /\ buildResult.pageCount = Cardinality(BuiltPages)
       /\ buildResult.pageCount + Len(buildResult.errors) = Len(pageList)
       /\ buildResult.success <=> (buildResult.errors = <<>>)

\* the build has returned; its first page failed, a page of its batch and a
\* page of the next batch were built
C16_Witness ==
  /\ buildResult.returned
  /\ Len(pageList) > concurrencyLimit
  /\ pagePhase[1] = "failed"
  /\ pagePhase[2] = "built"
  /\ pagePhase[Len(pageList)] = "built"

\* C17: a buildPage call that has settled has removed the sandbox
\* directory it created, however it settled.
C17_SandboxRemovedWhenSettled ==
  \A p \in SelectedPages :
    Settled(pagePhase[p]) => tempDirs[p] \in {"none", "removed"}

\* C17 amended: a buildPage call that has settled, however it settled, has
\* run cleanupTempDir on the sandbox directory it created; the directory
\* is removed unless the removal itself failed, a failure that is logged
\* and swallowed, and on a file system that does not fail it is removed.
C17_CleanupRunWhenSettled ==
  \A p \in SelectedPages :
    /\ Settled(pagePhase[p]) => tempDirs[p] \in {"none", "removed", "left"}
    /\ tempDirs[p] = "none" => pagePhase[p] \in {"pending", "failed"}
    /\ (Settled(pagePhase[p]) /\ ~fsFaults) => tempDirs[p] = "removed"
    /\ p \in InFlight => tempDirs[p] = "created"

\* on a file system that fails, a page whose compilation timed out has
\* settled and its sandbox directory is removed
C17_Witness ==
  /\ fsFaults
  /\ pagePhase[1] = "failed"
  /\ compileResults[1] = <<[doc |-> "page", outcome |-> "timeout"]>>
  /\ tempDirs[1] = "removed"

\* the batch of a page in a full build
BatchOf(p) == (p - 1) \div concurrencyLimit

\* C18: in a full build at most 4 page builds, and at most 4 compiler
\* processes, are in flight, and no page of a batch has started before
\* every page of the batches before it has settled.
C18_AtMostFourInFlightBatchByBatch ==
  buildKind = "full" =>
    /\ Cardinality(InFlight) <= 4
    /\ Cardinality({p \in SelectedPages : childProc[p] # "none"}) <= 4
    /\ \A p, q \in SelectedPages :
         (BatchOf(p) < BatchOf(q) /\ attempts[q] > 0) => Settled(pagePhase[p])

\* four page builds are in flight and a fifth page waits
C18_Witness ==
  /\ buildKind = "full"
  /\ Cardinality(InFlight) = 4
  /\ Cardinality({p \in SelectedPages : childProc[p] # "none"}) = 4
  /\ \E q \in SelectedPages : pagePhase[q] = "pending"

TimedOut(p) == [page |-> p, error |-> "timeout"]

C20_AnyFailedCompilationFailsThePage ==
  \A p \in SelectedPages :
    /\ (/\ Settled(pagePhase[p])
        /\ \E i \in 1..Len(compileResults[p]) :
             compileResults[p][i].outcome \in {"compiler", "timeout"})
         => (pagePhase[p] = "failed" /\ ErrorsOf(p) # {})
    /\ \A i, j \in 1..Len(compileCalls[p]) :
         compileCalls[p][i] = compileCalls[p][j] => i = j

(***************************************************************************)
(* Routes and output paths.                                                *)
(***************************************************************************)
\* the names of a route: its pieces other than the separator
RouteNames(text) == SelectSeq(text, LAMBDA piece : piece # SLASH)
\* a separator before every name and one at the end
WellFormedRoute(text) ==
  /\ Len(text) = 2 * Len(RouteNames(text)) + 1
  /\ \A i \in 1..Len(text) : (text[i] = SLASH) <=> (i % 2 = 1)
\* a file name without its extension
NameWithoutExtension(name) ==
  CASE name \in {"index.typ", "index.css"} -> "index"
    [] name = "p.typ" -> "p"
    [] name = "a.typ" -> "a"
    [] name = "README" -> "README"
    [] name = ".typ" -> ".typ"

\* C23: the route of a non-empty path array starts and ends with "/"; the
\* route of an index.typ is that of its directory, "/" for the root one,
\* and the route of another file is its directory and then its name
\* without extension; routeToBuildPath of that route gives dir, the route
\* without its first and last "/", and pdfPath and htmlPath, index.pdf and
\* index.html in dir, so that "/" dir "/" is the route unless it is "/".
C23_RouteAndBuildPathAgree ==
  /\ routePc \in {"paths", "done"} =>
       /\ Head(route) = SLASH /\ Last(route) = SLASH
       /\ WellFormedRoute(route)
       /\ RouteNames(route) =
            IF Last(routeFilePath) = INDEX_TYP THEN ButLast(routeFilePath)
            ELSE Append(ButLast(routeFilePath), NameWithoutExtension(Last(routeFilePath)))
  /\ routePc = "done" =>
       /\ buildPaths.dir = SubSeq(route, 2, Len(route) - 1)
       /\ route = <<SLASH>> =>
            buildPaths.pdfPath = <<"index.pdf">> /\ buildPaths.htmlPath = <<"index.html">>
       /\ route # <<SLASH>> =>
            /\ buildPaths.pdfPath = buildPaths.dir \o <<SLASH, "index.pdf">>
            /\ buildPaths.htmlPath = buildPaths.dir \o <<SLASH, "index.html">>
            /\ <<SLASH>> \o buildPaths.dir \o <<SLASH>> = route

\* the paths of blog/p.typ have been computed
C23_Witness ==
  /\ routePc = "done"
  /\ routeFilePath = <<"blog", "p.typ">>
  /\ route = <<SLASH, "blog", SLASH, "p", SLASH>>
  /\ buildPaths.pdfPath = <<"blog", SLASH, "p", SLASH, "index.pdf">>

(***************************************************************************)
(* The output of a full build.                                             *)
(***************************************************************************)
\* C24: two full builds of one unchanged pages tree and configuration
\* leave the same files with the same content in the output directory, in
\* whatever order the page builds of a batch complete.
C24_SecondBuildSameOutput ==
  buildRun = 4 => outputFiles = firstOutput

\* C26: two different pages selected by a build have different routes,
\* hence different pdfPath and htmlPath: no two page builds write the same
\* output file.
C26_DistinctPagesDistinctOutputs ==
  \A p, q \in DOMAIN outPhase :
    p # q =>
      /\ RouteOfPage(p, indexPage) # RouteOfPage(q, indexPage)
      /\ BuildPathsOfPage(p, indexPage).pdfPath # BuildPathsOfPage(q, indexPage).pdfPath
      /\ BuildPathsOfPage(p, indexPage).htmlPath # BuildPathsOfPage(q, indexPage).htmlPath

(***************************************************************************)
(* Configuration errors of build.                                          *)
(***************************************************************************)
\* C21: when the compiler is not installed or the pages directory is
\* missing, build throws, and it has started no page build before: it
\* never selects or builds a page, and a build that has thrown is one of
\* these two cases.
C21_ConfigErrorThrowsBeforePages ==
  /\ (~typstInstalled \/ ~pagesDirExists) =>
       /\ pagesStarted = 0
       /\ buildStage \notin {"select", "built", "returned"}
  /\ ~typstInstalled => buildStage \in {"start", "check", "thrown"}
  /\ buildStage = "thrown" =>
       /\ pagesStarted = 0
       /\ ~typstInstalled \/ ~pagesDirExists

\* build has thrown for a missing compiler
C21_Witness ==
  /\ buildStage = "thrown"
  /\ ~typstInstalled
  /\ pagesStarted = 0

\* C28: when build has failed with a configuration error, an output
\* directory that existed holds what it held before the call.
C28_OutputUntouchedOnConfigError ==
  buildStage = "thrown" => outputDir = outputAtStart

(***************************************************************************)
(* Changed files that are not markup.                                      *)
(***************************************************************************)
\* C22: when buildIncremental has returned for a file that exists, is not a
\* markup file and lies outside the pages directory, the file has been
\* copied to the output directory, no page has been built and the graph
\* has not been built.
C22_NonMarkupOutsidePagesCopied ==
  ( /\ dispatchPc = "returned"
    /\ changedExists
    /\ ~EndsWithTyp(changedPath)
    /\ ~UnderDirectory(changedPath, <<SRC_DIR, PAGES_DIR_NAME>>) ) =>
      /\ \E out \in incrOutput :
           /\ Len(out) >= 1
           /\ out[Len(out)] = changedPath[Len(changedPath)]
      /\ pagesRebuilt = {}
      /\ ~graphBuilt

(***************************************************************************)
(* The dev server.                                                         *)
(***************************************************************************)
\* C25: every event the watcher reports for a file leads to a call of
\* buildIncremental for that file.
C25_EveryEventRebuilt ==
  \A f \in DevFiles : (f \in reported) ~> (f \in rebuildCalls)

\* C27: at most one rebuild is in progress at any time.
C27_OneRebuildAtATime == Cardinality(InProgress) <= 1

(***************************************************************************)
(* Fallback and merge on the same tree and page.                           *)
(***************************************************************************)
\* C29: when fallback mode has returned a layout of a depth that is at most
\* maxMergeDepth, merge mode returns for the same tree and page a list that
\* is not empty and starts with that layout; when fallback mode has
\* returned null, merge mode returns [].
C29_MergeStartsWithFallbackLayout ==
  (layoutPc = "done" /\ layoutInheritance = "fallback" /\ pagePathArray # <<>>) =>
    LET merged == findLayout(pagePathArray, pagesTree, "merge", maxMergeDepth)
    IN /\ layoutResult = Null => merged = Array(<<>>)
       /\ (layoutResult # Null /\ layoutResult.list[1].level <= maxMergeDepth) =>
            /\ merged.list # <<>>
            /\ merged.list[1] = layoutResult.list[1]

(***************************************************************************)
(* The directories of findCss in merge mode.                               *)
(***************************************************************************)
CssOfDepth(d) == Append(SubSeq(PageDir, 1, Len(PageDir) - d), INDEX_CSS)
CssPathsReturned == {cssResult.list[i].pathArray : i \in 1..Len(cssResult.list)}

\* C30: in merge mode an index.css of the page's own directory is part of
\* the result of findCss, and an index.css of a directory is part of it
\* only when those of all nearer directories are: the directories left out
\* are the farthest ones.
C30_MergeCssKeepsNearestDirectories ==
  (cssPc = "done" /\ layoutInheritance = "merge" /\ pagePathArray # <<>>) =>
    /\ CssOfDepth(0) \in DOMAIN pagesTree => CssOfDepth(0) \in CssPathsReturned
    /\ \A d, e \in 0..Len(PageDir) :
         ( /\ e < d
           /\ CssOfDepth(d) \in CssPathsReturned
           /\ CssOfDepth(e) \in DOMAIN pagesTree ) => CssOfDepth(e) \in CssPathsReturned

====
